---- MODULE Spec2Model ----
(***************************************************************************)
(* Model of the umbro-cdk repository: the CDK app entry point (getConfig   *)
(* and the OIDC stacks it builds), the stage-to-environment identity       *)
(* mapping, and the one-shot scripts.                                      *)
(*                                                                         *)
(* JavaScript strings are modelled as sequences of one-character strings,  *)
(* so that toLowerCase, charAt, slice, join and replace are computed and   *)
(* not assumed.                                                            *)
(***************************************************************************)
EXTENDS Integers, Sequences, FiniteSets, TLC

VARIABLES program, pc, input, config, stack, result, thrown, sync, twin, vercel, deploy, verifier

vars == <<program, pc, input, config, stack, result, thrown, sync, twin, vercel, deploy, verifier>>

(***************************************************************************)
(* Bounds of the model.                                                    *)
(***************************************************************************)
\* longest `stages` list handed to the multi-stage Vercel stack
MaxStages == 2
\* longest `repositoryConfig` list handed to the GitHub stack
MaxRepos == 2

(***************************************************************************)
(* String literals of the source, as character sequences.                  *)
(***************************************************************************)
s_empty == <<>>
s_colon == <<":">>
s_star == <<"*">>
s_slash == <<"/">>
s_https == <<"h", "t", "t", "p", "s", ":", "/", "/">>
s_oidcGlobal == <<"h", "t", "t", "p", "s", ":", "/", "/", "o", "i", "d", "c", ".", "v", "e", "r", "c", "e", "l", ".", "c", "o", "m">>
s_audPrefix == <<"h", "t", "t", "p", "s", ":", "/", "/", "v", "e", "r", "c", "e", "l", ".", "c", "o", "m", "/">>
s_owner == <<"o", "w", "n", "e", "r">>
s_project == <<"p", "r", "o", "j", "e", "c", "t">>
s_environment == <<"e", "n", "v", "i", "r", "o", "n", "m", "e", "n", "t">>
s_development == <<"d", "e", "v", "e", "l", "o", "p", "m", "e", "n", "t">>
s_preview == <<"p", "r", "e", "v", "i", "e", "w">>
s_production == <<"p", "r", "o", "d", "u", "c", "t", "i", "o", "n">>
s_dev == <<"d", "e", "v">>
s_prod == <<"p", "r", "o", "d">>
s_alpha == <<"a", "l", "p", "h", "a">>
s_beta == <<"b", "e", "t", "a">>
s_gamma == <<"g", "a", "m", "m", "a">>
s_pipeline == <<"p", "i", "p", "e", "l", "i", "n", "e">>
s_root == <<"r", "o", "o", "t">>
s_staging == <<"s", "t", "a", "g", "i", "n", "g">>
s_VercelApp == <<"V", "e", "r", "c", "e", "l", "A", "p", "p">>
s_VercelDeploy == <<"V", "e", "r", "c", "e", "l", "D", "e", "p", "l", "o", "y">>
s_UserRole == <<"U", "s", "e", "r", "R", "o", "l", "e">>
s_GitHubDeploy == <<"G", "i", "t", "H", "u", "b", "D", "e", "p", "l", "o", "y">>
s_githubDomain == <<"t", "o", "k", "e", "n", ".", "a", "c", "t", "i", "o", "n", "s", ".", "g", "i", "t", "h", "u", "b", "u", "s", "e", "r", "c", "o", "n", "t", "e", "n", "t", ".", "c", "o", "m">>
s_stsAudience == <<"s", "t", "s", ".", "a", "m", "a", "z", "o", "n", "a", "w", "s", ".", "c", "o", "m">>
s_Umbro == <<"U", "m", "b", "r", "o">>
s_vercelProvider == <<"v", "e", "r", "c", "e", "l", "P", "r", "o", "v", "i", "d", "e", "r">>
s_githubProvider == <<"g", "i", "t", "h", "u", "b", "P", "r", "o", "v", "i", "d", "e", "r">>
s_nextauthPrefix == <<"u", "m", "b", "r", "o", "|", "n", "e", "x", "t", "a", "u", "t", "h", "|">>
s_repoPrefix == <<"r", "e", "p", "o", ":">>
s_aud == <<":", "a", "u", "d">>
s_sub == <<":", "s", "u", "b">>
s_defaultTeamSlug == <<"c", "o", "l", "t", "e", "n", "-", "k", "r", "a", "u", "t", "e", "r", "s", "-", "p", "r", "o", "j", "e", "c", "t", "s">>
s_defaultProjectName == <<"u", "m", "b", "r", "o">>
s_usEast1 == <<"u", "s", "-", "e", "a", "s", "t", "-", "1">>
s_constructor == <<"c", "o", "n", "s", "t", "r", "u", "c", "t", "o", "r">>
s_toString == <<"t", "o", "S", "t", "r", "i", "n", "g">>
s_valueOf == <<"v", "a", "l", "u", "e", "O", "f">>
s_hasOwnProperty == <<"h", "a", "s", "O", "w", "n", "P", "r", "o", "p", "e", "r", "t", "y">>
\* sample inputs
s_acme == <<"a", "c", "m", "e">>
s_widget == <<"w", "i", "d", "g", "e", "t">>
s_account == <<"1", "2", "3">>
s_euWest1 == <<"e", "u", "-", "w", "e", "s", "t", "-", "1">>
s_PROD == <<"P", "R", "O", "D">>
s_seedAlphaFallback == <<"u", "m", "b", "r", "o", "-", "a", "l", "p", "h", "a", "-", "s", "e", "e", "d", "-", "2", "0", "2", "4", "-", "d", "e", "t", "e", "r", "m", "i", "n", "i", "s", "t", "i", "c", "-", "f", "a", "l", "l", "b", "a", "c", "k">>
s_seedShort == <<"s", "3">>
s_main == <<"m", "a", "i", "n">>
s_octo == <<"o", "c", "t", "o">>
s_infra == <<"i", "n", "f", "r", "a">>

(***************************************************************************)
(* JavaScript string primitives.                                           *)
(***************************************************************************)
UpperLetters == <<"A", "B", "C", "D", "E", "F", "G", "H", "I", "J", "K", "L", "M", "N", "O", "P", "Q", "R", "S", "T", "U", "V", "W", "X", "Y", "Z">>
LowerLetters == <<"a", "b", "c", "d", "e", "f", "g", "h", "i", "j", "k", "l", "m", "n", "o", "p", "q", "r", "s", "t", "u", "v", "w", "x", "y", "z">>

IndexIn(letters, c) == IF \E i \in 1..Len(letters) : letters[i] = c
                       THEN CHOOSE i \in 1..Len(letters) : letters[i] = c
                       ELSE 0

lowerChar(c) == IF IndexIn(UpperLetters, c) # 0 THEN LowerLetters[IndexIn(UpperLetters, c)] ELSE c
upperChar(c) == IF IndexIn(LowerLetters, c) # 0 THEN UpperLetters[IndexIn(LowerLetters, c)] ELSE c

\* String.prototype.toLowerCase / toUpperCase
toLowerCase(s) == [i \in 1..Len(s) |-> lowerChar(s[i])]
toUpperCase(s) == [i \in 1..Len(s) |-> upperChar(s[i])]

\* String.prototype.charAt(i), 0-based; the empty string when out of range
charAt(s, i) == IF i + 1 \in 1..Len(s) THEN <<s[i + 1]>> ELSE <<>>

\* String.prototype.slice(start), 0-based, start >= 0
slice(s, start) == IF start >= Len(s) THEN <<>> ELSE SubSeq(s, start + 1, Len(s))

\* Array.prototype.join(sep) on an array of strings
RECURSIVE join(_, _)
join(list, sep) == IF Len(list) = 0 THEN <<>>
                   ELSE IF Len(list) = 1 THEN list[1]
                   ELSE list[1] \o sep \o join(Tail(list), sep)

\* position (1-based) of the first occurrence of pat in s, 0 when absent
FirstOccurrence(s, pat) ==
    LET hits == {i \in 1..(Len(s) - Len(pat) + 1) : SubSeq(s, i, i + Len(pat) - 1) = pat}
    IN IF hits = {} THEN 0 ELSE CHOOSE i \in hits : \A j \in hits : i <= j

\* String.prototype.replace(pat, rep) with a string pattern: first occurrence only
replace(s, pat, rep) ==
    LET i == FirstOccurrence(s, pat)
    IN IF i = 0 THEN s
       ELSE SubSeq(s, 1, i - 1) \o rep \o SubSeq(s, i + Len(pat), Len(s))

EndsWith(s, suffix) == Len(s) >= Len(suffix) /\ SubSeq(s, Len(s) - Len(suffix) + 1, Len(s)) = suffix

(***************************************************************************)
(* JavaScript values that are not always strings carry their type.         *)
(***************************************************************************)
JSString(s) == [t |-> "string", s |-> s]
JSFunction(name) == [t |-> "function", s |-> name]

None == [t |-> "none"]

(***************************************************************************)
(* The Stage enumeration of @krauters/structures: a string enum whose      *)
(* members are the seven stages getConfig names, each valued by its name.  *)
(***************************************************************************)
Stage == [Alpha |-> <<"A", "l", "p", "h", "a">>,
          Beta |-> <<"B", "e", "t", "a">>,
          Development |-> <<"D", "e", "v", "e", "l", "o", "p", "m", "e", "n", "t">>,
          Gamma |-> <<"G", "a", "m", "m", "a">>,
          Pipeline |-> <<"P", "i", "p", "e", "l", "i", "n", "e">>,
          Production |-> <<"P", "r", "o", "d", "u", "c", "t", "i", "o", "n">>,
          Root |-> <<"R", "o", "o", "t">>]

\* Object.values(Stage)
StageValues == {Stage[k] : k \in DOMAIN Stage}

\* property names every plain object inherits from Object.prototype
ObjectPrototypeKeys == {s_constructor, s_toString, s_valueOf, s_hasOwnProperty}

\* Stage[stageKey]: own members first, then the prototype chain, else undefined
StageLookup(stageKey) ==
    IF stageKey \in StageValues THEN JSString(stageKey)
    ELSE IF stageKey \in ObjectPrototypeKeys THEN JSFunction(stageKey)
    ELSE None

\* a JavaScript value used as a condition: undefined is falsy, so is ''
Truthy(v) == v.t # "none" /\ ~(v.t = "string" /\ v.s = <<>>)

(***************************************************************************)
(* process.env                                                             *)
(***************************************************************************)
\* process.env.NAME || fallback
EnvOr(envv, name, fallback) ==
    IF name \in DOMAIN envv /\ envv[name] # <<>> THEN envv[name] ELSE fallback

\* !process.env.NAME
EnvMissing(envv, name) == ~(name \in DOMAIN envv /\ envv[name] # <<>>)

\* an environment with no variable set
EmptyEnv == [n \in {} |-> <<>>]

(***************************************************************************)
(* getConfig: account check, then the stage aliases, then the direct enum  *)
(* lookup, then the error.                                                 *)
(***************************************************************************)
\* the stage validation without the alias switch: the direct enum lookup only
stageFromInput_noAliases(stageInput) ==
    LET directStage == StageLookup(stageInput)
    IN IF Truthy(directStage) THEN directStage ELSE None

stageFromInput(stageInput) ==
    LET lower == toLowerCase(stageInput)
    IN IF lower \in {s_dev, s_development} THEN JSString(Stage.Development)
       ELSE IF lower = s_alpha THEN JSString(Stage.Alpha)
       ELSE IF lower = s_beta THEN JSString(Stage.Beta)
       ELSE IF lower \in {s_prod, s_production} THEN JSString(Stage.Production)
       ELSE IF lower = s_gamma THEN JSString(Stage.Gamma)
       ELSE IF lower = s_pipeline THEN JSString(Stage.Pipeline)
       ELSE IF lower = s_root THEN JSString(Stage.Root)
       ELSE LET directStage == StageLookup(stageInput)
            IN IF Truthy(directStage) THEN directStage ELSE None

getConfig(envv) ==
    LET region == EnvOr(envv, "CDK_DEFAULT_REGION", s_usEast1)
        stageInput == EnvOr(envv, "STAGE", s_dev)
        stage == stageFromInput(stageInput)
    IN IF EnvMissing(envv, "CDK_DEFAULT_ACCOUNT")
       THEN [threw |-> TRUE, error |-> "CDK_DEFAULT_ACCOUNT environment variable is required"]
       ELSE IF stage = None
       THEN [threw |-> TRUE, error |-> "Invalid STAGE"]
       ELSE [threw |-> FALSE,
             env |-> [account |-> envv["CDK_DEFAULT_ACCOUNT"], region |-> region],
             stage |-> stage,
             stackProps |-> [tags |-> [Environment |-> stage, ManagedBy |-> "CDK", Project |-> "Umbro"],
                             terminationProtection |-> (stage = JSString(Stage.Production))]]

(***************************************************************************)
(* lib/stacks/vercel-open-id-connect.ts: the single-stage Vercel stack.    *)
(***************************************************************************)
\* the case label of the switch that a stage selects
mapStageCase(stage) ==
    IF stage = Stage.Alpha THEN "Alpha"
    ELSE IF stage = Stage.Production THEN "Production"
    ELSE "default"

\* the mapping without its Alpha case: Alpha falls into the default
mapStageToVercelEnvironment_noAlphaCase(stage) ==
    IF stage = Stage.Production THEN <<s_production>> ELSE <<toLowerCase(stage)>>

\* the mapping whose default yields no environment
mapStageToVercelEnvironment_emptyDefault(stage) ==
    CASE mapStageCase(stage) = "Alpha" -> <<s_development, s_preview>>
      [] mapStageCase(stage) = "Production" -> <<s_production>>
      [] OTHER -> <<>>

mapStageToVercelEnvironment(stage) ==
    CASE mapStageCase(stage) = "Alpha" -> <<s_development, s_preview>>
      [] mapStageCase(stage) = "Production" -> <<s_production>>
      [] OTHER -> <<toLowerCase(stage)>>

\* the claim with project and owner exchanged
createSubjectClaim_projectFirst(teamSlug, projectName, environment) ==
    join(<<s_project, projectName, s_owner, teamSlug, s_environment, environment>>, s_colon)

createSubjectClaim(teamSlug, projectName, environment) ==
    join(<<s_owner, teamSlug, s_project, projectName, s_environment, environment>>, s_colon)

\* values of a condition map: a string or an array of strings
StringValue(s) == [kind |-> "string", value |-> s]
ArrayValue(list) == [kind |-> "array", value |-> list]

\* obj[key] = value
Assign(obj, key, value) == [k \in DOMAIN obj \cup {key} |-> IF k = key THEN value ELSE obj[k]]

\* the subject value without the collapse of a single claim
subjectConditionValue_alwaysArray(subjectClaims) == ArrayValue(subjectClaims)

\* subjectClaims.length === 1 ? subjectClaims[0] : subjectClaims
subjectConditionValue(subjectClaims) ==
    IF Len(subjectClaims) = 1 THEN StringValue(subjectClaims[1]) ELSE ArrayValue(subjectClaims)

\* the whole stage upper-cased
capitalize_upperAll(stage) == toUpperCase(stage)

\* stage.charAt(0).toUpperCase() + stage.slice(1)
capitalize(stage) == toUpperCase(charAt(stage, 0)) \o slice(stage, 1)

vercelRoleName(stage) == s_VercelApp \o capitalize(stage)

vercelOidcUrlOf(teamSlug, issuerMode) ==
    IF issuerMode = "team" THEN s_oidcGlobal \o s_slash \o teamSlug ELSE s_oidcGlobal

\* props.issuerMode with its destructuring default
issuerModeOf(props) == IF props.issuerMode = "undefined" THEN "team" ELSE props.issuerMode

\* vercelEnvironments.map(env => createSubjectClaim(teamSlug, projectName, env))
subjectClaimsOf(teamSlug, projectName, vercelEnvironments) ==
    [i \in 1..Len(vercelEnvironments) |->
        createSubjectClaim(teamSlug, projectName, vercelEnvironments[i])]

\* the Conditions object: the audience first, then the subject key is assigned
vercelConditions(vercelOidcUrl, audienceValue, subjectClaims) ==
    LET oidcUrlWithoutProtocol == replace(vercelOidcUrl, s_https, s_empty)
        audOnly == [k \in {oidcUrlWithoutProtocol \o s_aud} |-> StringValue(audienceValue)]
        subKey == oidcUrlWithoutProtocol \o s_sub
    IN [StringEquals |-> Assign(audOnly, subKey, subjectConditionValue(subjectClaims))]

\* the constructor: provider, then the role with its trust conditions.
\* A stage that is not a string has no charAt, and line 67 throws.
VercelOpenIDConnectStack(props) ==
    LET teamSlug == props.teamSlug
        projectName == props.projectName
        issuerMode == issuerModeOf(props)
        vercelOidcUrl == vercelOidcUrlOf(teamSlug, issuerMode)
        audienceValue == s_audPrefix \o teamSlug
        provider == [id |-> s_vercelProvider, clientIds |-> <<audienceValue>>, url |-> vercelOidcUrl]
    IN IF props.stage.t # "string"
       THEN [class |-> "VercelOpenIDConnectStack", provider |-> provider, roles |-> <<>>,
             thrown |-> "TypeError"]
       ELSE LET stage == props.stage.s
                vercelEnvironments == mapStageToVercelEnvironment(stage)
                subjectClaims == subjectClaimsOf(teamSlug, projectName, vercelEnvironments)
            IN [class |-> "VercelOpenIDConnectStack", provider |-> provider,
                roles |-> <<[id |-> s_Umbro \o vercelRoleName(stage),
                             roleName |-> vercelRoleName(stage),
                             stage |-> stage,
                             vercelEnvironments |-> vercelEnvironments,
                             envRule |-> mapStageCase(stage),
                             subjectClaims |-> subjectClaims,
                             conditions |-> vercelConditions(vercelOidcUrl, audienceValue, subjectClaims)]>>,
                thrown |-> "none"]

\* the app handing over config.stage.toLowerCase()
appStageProp_lowerCased(cfg) == [t |-> cfg.stage.t, s |-> toLowerCase(cfg.stage.s)]

\* lib/app.ts: the stage the app hands to the stack
appStageProp(cfg) == cfg.stage

\* lib/app.ts: the props of the UmbroVercelOIDC stack
appVercelProps(cfg, envv) ==
    [teamSlug |-> EnvOr(envv, "VERCEL_TEAM_SLUG", s_defaultTeamSlug),
     projectName |-> EnvOr(envv, "VERCEL_PROJECT_NAME", s_defaultProjectName),
     stage |-> appStageProp(cfg),
     issuerMode |-> "undefined"]

(***************************************************************************)
(* The multi-stage Vercel stack: one role per entry of `stages`.           *)
(* new Role(this, id) throws when the scope already holds a construct      *)
(* named id.                                                               *)
(***************************************************************************)
multiStageRoleName(stage) == s_VercelDeploy \o capitalize(stage)

multiStageRole(teamSlug, projectName, vercelOidcUrl, audienceValue, stage) ==
    LET host == replace(vercelOidcUrl, s_https, s_empty)
        sub == s_owner \o s_colon \o teamSlug \o s_colon \o s_project \o s_colon \o projectName
                 \o s_colon \o s_environment \o s_colon \o stage
    IN [id |-> s_Umbro \o multiStageRoleName(stage),
        roleName |-> multiStageRoleName(stage),
        stage |-> stage,
        conditions |-> [StringEquals |->
            Assign([k \in {host \o s_aud} |-> StringValue(audienceValue)],
                   host \o s_sub, StringValue(sub))]]

\* the for loop over stages, from entry i on, with the roles created so far
RECURSIVE multiStageLoop(_, _, _, _, _, _, _)
multiStageLoop(stages, i, created, teamSlug, projectName, vercelOidcUrl, audienceValue) ==
    IF i > Len(stages) THEN [roles |-> created, thrown |-> "none"]
    ELSE LET role == multiStageRole(teamSlug, projectName, vercelOidcUrl, audienceValue, stages[i])
         IN IF role.id = s_vercelProvider \/ \E j \in 1..Len(created) : created[j].id = role.id
            THEN [roles |-> created, thrown |-> "There is already a Construct with name"]
            ELSE multiStageLoop(stages, i + 1, Append(created, role),
                                teamSlug, projectName, vercelOidcUrl, audienceValue)

\* props.stages with its destructuring default
stagesOf(props) == IF props.stages = None THEN <<s_alpha, s_beta, s_prod>> ELSE props.stages.list

MultiStageVercelStack(props) ==
    LET teamSlug == props.teamSlug
        vercelOidcUrl == vercelOidcUrlOf(teamSlug, issuerModeOf(props))
        audienceValue == s_audPrefix \o teamSlug
        loop == multiStageLoop(stagesOf(props), 1, <<>>, teamSlug, props.projectName,
                               vercelOidcUrl, audienceValue)
    IN [class |-> "VercelOpenIDConnectStack(stages)",
        provider |-> [id |-> s_vercelProvider, clientIds |-> <<audienceValue>>, url |-> vercelOidcUrl],
        roles |-> loop.roles,
        thrown |-> loop.thrown]

(***************************************************************************)
(* The GitHub stack: one role, trusted by a StringLike on the subject.     *)
(***************************************************************************)
\* r.filter ?? '*'
filterOf(r) == IF r.filter = None THEN s_star ELSE r.filter.s

\* `repo:${r.owner}/${r.repo}:${r.filter ?? '*'}`
repoDeployAccess(r) == s_repoPrefix \o r.owner \o s_slash \o r.repo \o s_colon \o filterOf(r)

GitHubOpenIDConnectStack(props) ==
    LET roleName == IF props.roleName = None THEN s_GitHubDeploy ELSE props.roleName.s
        iamRepoDeployAccess == [i \in 1..Len(props.repositoryConfig) |->
                                   repoDeployAccess(props.repositoryConfig[i])]
    IN [class |-> "GitHubOpenIDConnectStack",
        provider |-> [id |-> s_githubProvider, clientIds |-> <<s_stsAudience>>,
                      url |-> s_https \o s_githubDomain],
        roles |-> <<[id |-> s_Umbro \o roleName,
                     roleName |-> roleName,
                     conditions |-> [StringLike |->
                         [k \in {s_githubDomain \o s_sub} |-> ArrayValue(iamRepoDeployAccess)]]]>>,
        thrown |-> "none"]

(***************************************************************************)
(* lib/config.ts: generateRoleName                                         *)
(***************************************************************************)
generateRoleName(stage, type) ==
    LET stageCapitalized == capitalize(stage)
    IN CASE type = "vercel" -> [threw |-> FALSE, value |-> s_VercelDeploy \o stageCapitalized]
         [] type = "github" -> [threw |-> FALSE, value |-> s_GitHubDeploy]
         [] type = "user" -> [threw |-> FALSE, value |-> s_UserRole \o stageCapitalized]
         [] OTHER -> [threw |-> TRUE, value |-> <<>>]

(***************************************************************************)
(* node:crypto createHmac('sha256', key).update(data).digest('hex'):       *)
(* SHA-256 (FIPS 180-4) and HMAC (RFC 2104), computed.                     *)
(***************************************************************************)
SHA256_K ==
  << <<17034, 12184>>, <<28983, 17553>>, <<46528, 64463>>, <<59829, 56229>>,
    <<14678, 49755>>, <<23025, 4593>>, <<37439, 33444>>, <<43804, 24277>>,
    <<55303, 43672>>, <<4739, 23297>>, <<9265, 34238>>, <<21772, 32195>>,
    <<29374, 23924>>, <<32990, 45566>>, <<39900, 1703>>, <<49563, 61812>>,
    <<58523, 27073>>, <<61374, 18310>>, <<4033, 40390>>, <<9228, 41420>>,
    <<11753, 11375>>, <<19060, 33962>>, <<23728, 43484>>, <<30457, 35034>>,
    <<38974, 20818>>, <<43057, 50797>>, <<45059, 10184>>, <<48985, 32711>>,
    <<50912, 3059>>, <<54695, 37191>>, <<1738, 25425>>, <<5161, 10599>>,
    <<10167, 2693>>, <<11803, 8504>>, <<19756, 28156>>, <<21304, 3347>>,
    <<25866, 29524>>, <<30314, 2747>>, <<33218, 51502>>, <<37490, 11397>>,
    <<41663, 59553>>, <<43034, 26187>>, <<49739, 35696>>, <<51052, 20899>>,
    <<53650, 59417>>, <<54937, 1572>>, <<62478, 13701>>, <<4202, 41072>>,
    <<6564, 49430>>, <<7735, 27656>>, <<10056, 30540>>, <<13488, 48309>>,
    <<14620, 3251>>, <<20184, 43594>>, <<23452, 51791>>, <<26670, 28659>>,
    <<29839, 33518>>, <<30885, 25455>>, <<33992, 30740>>, <<36039, 520>>,
    <<37054, 65530>>, <<42064, 27883>>, <<48889, 41975>>, <<50801, 30962>> >>

SHA256_H0 == << <<27145, 58983>>, <<47975, 44677>>, <<15470, 62322>>, <<42319, 62778>>, <<20750, 21119>>, <<39685, 26764>>, <<8067, 55723>>, <<23520, 52505>> >>

AsciiPrintable ==
  <<" ", "!", "DQUOTE", "#", "$", "%", "&", "'", "(", ")", "*", "+", ",", "-", ".", "/", "0", "1", "2", "3", "4", "5", "6", "7", "8", "9", ":", ";", "<", "=", ">", "?", "@", "A", "B", "C", "D", "E", "F", "G", "H", "I", "J", "K", "L", "M", "N", "O", "P", "Q", "R", "S", "T", "U", "V", "W", "X", "Y", "Z", "[", "BACKSLASH", "]", "^", "_", "BACKTICK", "a", "b", "c", "d", "e", "f", "g", "h", "i", "j", "k", "l", "m", "n", "o", "p", "q", "r", "s", "t", "u", "v", "w", "x", "y", "z", "{", "|", "}", "~">>

(***************************************************************************)
(* 32-bit words are pairs <<high 16 bits, low 16 bits>>.                   *)
(***************************************************************************)
Pow2 == <<1, 2, 4, 8, 16, 32, 64, 128, 256, 512, 1024, 2048, 4096, 8192, 16384, 32768, 65536>>
P(n) == Pow2[n + 1]

RECURSIVE bitOp(_, _, _, _)
bitOp(op, a, b, n) ==
    IF n = 0 THEN 0
    ELSE (IF op = "xor" THEN (a + b) % 2 ELSE (a % 2) * (b % 2))
         + 2 * bitOp(op, a \div 2, b \div 2, n - 1)

XorTab == [a \in 0..15 |-> [b \in 0..15 |-> bitOp("xor", a, b, 4)]]
AndTab == [a \in 0..15 |-> [b \in 0..15 |-> bitOp("and", a, b, 4)]]

Xor8(a, b) == XorTab[a % 16][b % 16] + 16 * XorTab[a \div 16][b \div 16]
Xor16(a, b) == Xor8(a % 256, b % 256) + 256 * Xor8(a \div 256, b \div 256)
And8(a, b) == AndTab[a % 16][b % 16] + 16 * AndTab[a \div 16][b \div 16]
And16(a, b) == And8(a % 256, b % 256) + 256 * And8(a \div 256, b \div 256)

XorW(x, y) == <<Xor16(x[1], y[1]), Xor16(x[2], y[2])>>
AndW(x, y) == <<And16(x[1], y[1]), And16(x[2], y[2])>>
NotW(x) == <<65535 - x[1], 65535 - x[2]>>
AddW(x, y) == <<(x[1] + y[1] + ((x[2] + y[2]) \div 65536)) % 65536, (x[2] + y[2]) % 65536>>

\* rotate right by m < 16
Rotr16(y, m) ==
    IF m = 0 THEN y
    ELSE <<(y[1] \div P(m)) + (y[2] % P(m)) * P(16 - m),
           (y[2] \div P(m)) + (y[1] % P(m)) * P(16 - m)>>

RotrW(x, n) == IF n >= 16 THEN Rotr16(<<x[2], x[1]>>, n - 16) ELSE Rotr16(x, n)

\* logical shift right by n < 16
ShrW(x, n) == <<x[1] \div P(n), (x[2] \div P(n)) + (x[1] % P(n)) * P(16 - n)>>

BigSigma0(x) == XorW(XorW(RotrW(x, 2), RotrW(x, 13)), RotrW(x, 22))
BigSigma1(x) == XorW(XorW(RotrW(x, 6), RotrW(x, 11)), RotrW(x, 25))
SmallSigma0(x) == XorW(XorW(RotrW(x, 7), RotrW(x, 18)), ShrW(x, 3))
SmallSigma1(x) == XorW(XorW(RotrW(x, 17), RotrW(x, 19)), ShrW(x, 10))
Ch(e, f, g) == XorW(AndW(e, f), AndW(NotW(e), g))
Maj(a, b, c) == XorW(XorW(AndW(a, b), AndW(a, c)), AndW(b, c))

\* the message schedule: 16 words extended to 64. Words lo..hi are appended
\* half by half, each half computed before the next is started.
RECURSIVE Schedule(_, _, _)
RECURSIVE ScheduleRest(_, _, _)
Schedule(w, lo, hi) ==
    IF lo > hi THEN w
    ELSE IF lo = hi
    THEN Append(w, AddW(AddW(SmallSigma1(w[lo - 2]), w[lo - 7]),
                        AddW(SmallSigma0(w[lo - 15]), w[lo - 16])))
    ELSE ScheduleRest(Schedule(w, lo, (lo + hi) \div 2), (lo + hi) \div 2, hi)
ScheduleRest(left, mid, hi) == IF Len(left) = mid THEN Schedule(left, mid + 1, hi) ELSE <<>>

\* round t of the compression function on the working variables a..h
RoundStep(s, t1, t2) == <<AddW(t1, t2), s[1], s[2], s[3], AddW(s[4], t1), s[5], s[6], s[7]>>
Round(s, w, t) ==
    RoundStep(s,
              AddW(AddW(AddW(s[8], BigSigma1(s[5])), AddW(Ch(s[5], s[6], s[7]), SHA256_K[t])), w[t]),
              AddW(BigSigma0(s[1]), Maj(s[1], s[2], s[3])))

\* rounds lo..hi in order
RECURSIVE Rounds(_, _, _, _)
RECURSIVE RoundsRest(_, _, _, _)
Rounds(s, w, lo, hi) ==
    IF lo = hi THEN Round(s, w, lo)
    ELSE RoundsRest(Rounds(s, w, lo, (lo + hi) \div 2), w, (lo + hi) \div 2, hi)
RoundsRest(left, w, mid, hi) == IF Len(left) = 8 THEN Rounds(left, w, mid + 1, hi) ELSE <<>>

\* 64 bytes -> 16 big-endian words
BlockWords(bytes) ==
    [i \in 1..16 |-> <<bytes[4 * i - 3] * 256 + bytes[4 * i - 2], bytes[4 * i - 1] * 256 + bytes[4 * i]>>]
      \o <<>>

AddState(h, s) ==
    <<AddW(h[1], s[1]), AddW(h[2], s[2]), AddW(h[3], s[3]), AddW(h[4], s[4]),
      AddW(h[5], s[5]), AddW(h[6], s[6]), AddW(h[7], s[7]), AddW(h[8], s[8])>>

Compress(h, bytes) == AddState(h, Rounds(h, Schedule(BlockWords(bytes), 17, 64), 1, 64))

\* padding: 0x80, zeros up to 56 mod 64, then the bit length in 64 bits
\* (the messages of the model are far shorter than 2^32 bits, so the length
\* fits the last four bytes)
LengthBytes(bits) ==
    <<0, 0, 0, 0, (bits \div 16777216) % 256, (bits \div 65536) % 256, (bits \div 256) % 256, bits % 256>>

Pad(bytes) ==
    bytes \o <<128>> \o [i \in 1..((119 - (Len(bytes) % 64)) % 64) |-> 0] \o LengthBytes(Len(bytes) * 8)

RECURSIVE Blocks(_, _)
Blocks(h, bytes) ==
    IF Len(bytes) = 0 THEN h
    ELSE Blocks(Compress(h, SubSeq(bytes, 1, 64)), SubSeq(bytes, 65, Len(bytes)))

WordBytes(x) == <<x[1] \div 256, x[1] % 256, x[2] \div 256, x[2] % 256>>

StateBytes(h) ==
    WordBytes(h[1]) \o WordBytes(h[2]) \o WordBytes(h[3]) \o WordBytes(h[4])
      \o WordBytes(h[5]) \o WordBytes(h[6]) \o WordBytes(h[7]) \o WordBytes(h[8])

Sha256(bytes) == StateBytes(Blocks(SHA256_H0, Pad(bytes)))

\* HMAC (RFC 2104) with SHA-256, block size 64
ZeroPad(k0) == k0 \o [i \in 1..(64 - Len(k0)) |-> 0]
BlockKey(key) == ZeroPad(IF Len(key) > 64 THEN Sha256(key) ELSE key)
XorPad(k, pad) == [i \in 1..64 |-> Xor8(k[i], pad)]
HmacWithKey(k, msg) == Sha256(XorPad(k, 92) \o Sha256(XorPad(k, 54) \o msg))
HmacSha256(key, msg) == HmacWithKey(BlockKey(key), msg)

CharCode(c) == 31 + (CHOOSE i \in 1..Len(AsciiPrintable) : AsciiPrintable[i] = c)
Utf8(s) == [i \in 1..Len(s) |-> CharCode(s[i])]

HexDigits == <<"0", "1", "2", "3", "4", "5", "6", "7", "8", "9", "a", "b", "c", "d", "e", "f">>
\* Buffer.toString('hex'): two lowercase digits per byte
HexEncode(bytes) ==
    [i \in 1..(2 * Len(bytes)) |->
        IF i % 2 = 1 THEN HexDigits[(bytes[(i + 1) \div 2] \div 16) + 1]
        ELSE HexDigits[(bytes[i \div 2] % 16) + 1]]

\* the Hmac object of node:crypto
createHmac(algorithm, key) == [algorithm |-> algorithm, key |-> key, data |-> <<>>]
hmacUpdate(hmac, data) == [hmac EXCEPT !.data = @ \o data]
hmacDigest(hmac, encoding) ==
    IF hmac.algorithm = "sha256" /\ encoding = "hex"
    THEN HexEncode(HmacSha256(Utf8(hmac.key), Utf8(hmac.data)))
    ELSE <<>>

(***************************************************************************)
(* scripts/update-vercel-env.ts: deriveNextAuthSecret                      *)
(***************************************************************************)
\* deriveNextAuthSecret with the stage label left out of the message
deriveNextAuthSecret_stageNotMixed(seed, stage) ==
    hmacDigest(hmacUpdate(createHmac("sha256", seed), s_nextauthPrefix), "hex")

\* the derivation with key and message exchanged
deriveNextAuthSecret_keyIsMessage(seed, stage) ==
    hmacDigest(hmacUpdate(createHmac("sha256", s_nextauthPrefix \o stage), seed), "hex")

deriveNextAuthSecret(seed, stage) ==
    hmacDigest(hmacUpdate(createHmac("sha256", seed), s_nextauthPrefix \o stage), "hex")

(***************************************************************************)
(* scripts/update-vercel-env.ts: the Vercel environment sync script, in    *)
(* its two versions: the one of scripts/update-vercel-env.ts, which keeps  *)
(* five outputs and skips the secret when the seed is not set, and the one *)
(* of unnamed/part_000, which keeps all outputs and has fallback seeds.    *)
(* Console lines are modelled without their leading emoji.                 *)
(***************************************************************************)
SyncVersions == {"scripts/update-vercel-env.ts", "unnamed/part_000"}

\* String.prototype.trim, for blanks
RECURSIVE trimStart(_)
trimStart(s) == IF Len(s) > 0 /\ s[1] = " " THEN trimStart(Tail(s)) ELSE s
RECURSIVE trimEnd(_)
trimEnd(s) == IF Len(s) > 0 /\ s[Len(s)] = " " THEN trimEnd(SubSeq(s, 1, Len(s) - 1)) ELSE s
trim(s) == trimEnd(trimStart(s))

\* String.prototype.split(sep) with a non-empty separator
RECURSIVE split(_, _)
split(s, sep) ==
    IF FirstOccurrence(s, sep) = 0 THEN <<s>>
    ELSE <<SubSeq(s, 1, FirstOccurrence(s, sep) - 1)>>
           \o split(SubSeq(s, FirstOccurrence(s, sep) + Len(sep), Len(s)), sep)

\* Array.prototype.includes
includes(list, x) == \E i \in 1..Len(list) : list[i] = x

\* Array.prototype.map(t => t.trim())
trimAll(list) == [i \in 1..Len(list) |-> trim(list[i])] \o <<>>

\* a template literal's rendering of a possibly undefined string
templateText(v) == IF v.t = "string" THEN v.s ELSE <<"u", "n", "d", "e", "f", "i", "n", "e", "d">>

\* one console line: console.log, console.warn or console.error, with the
\* error object console.error is handed as its second argument
LogLine(level, text) == [level |-> level, text |-> text, error |-> "none"]
ErrorLine(text, error) == [level |-> "error", text |-> text, error |-> error]

requiredEnvVars == <<<<"V", "E", "R", "C", "E", "L", "_", "T", "O", "K", "E", "N">>, <<"V", "E", "R", "C", "E", "L", "_", "P", "R", "O", "J", "E", "C", "T", "_", "I", "D">>, <<"V", "E", "R", "C", "E", "L", "_", "T", "E", "A", "M", "_", "I", "D">>, <<"T", "A", "R", "G", "E", "T", "S">>>>

\* the required variables that are not set, in the order of the check
missingEnvVars(env) == SelectSeq(requiredEnvVars, LAMBDA n : EnvMissing(env, n))

\* the targets the constructor keeps: TARGETS split at commas, each trimmed
targetsOf(env) == trimAll(split(env[<<"T", "A", "R", "G", "E", "T", "S">>], <<",">>))

\* a stage taken from the first target alone
determineStageFromTargets_firstTarget(targets) ==
    IF targets[1] = <<"p", "r", "o", "d", "u", "c", "t", "i", "o", "n">> THEN <<"P", "r", "o", "d", "u", "c", "t", "i", "o", "n">> ELSE <<"A", "l", "p", "h", "a">>

determineStageFromTargets(targets) ==
    IF includes(targets, <<"p", "r", "o", "d", "u", "c", "t", "i", "o", "n">>) THEN <<"P", "r", "o", "d", "u", "c", "t", "i", "o", "n">> ELSE <<"A", "l", "p", "h", "a">>

\* the cases of the switch over the Umbro stack's output keys
umbroOutputKeys(version) ==
    IF version = "scripts/update-vercel-env.ts"
    THEN {<<"A", "c", "c", "o", "u", "n", "t", "I", "d">>, <<"R", "e", "g", "i", "o", "n">>, <<"U", "s", "e", "r", "s", "T", "a", "b", "l", "e", "N", "a", "m", "e">>, <<"S", "e", "r", "v", "i", "c", "e", "T", "o", "k", "e", "n", "s", "T", "a", "b", "l", "e", "N", "a", "m", "e">>}
    ELSE {<<"A", "c", "c", "o", "u", "n", "t", "I", "d">>, <<"R", "e", "g", "i", "o", "n">>, <<"U", "s", "e", "r", "s", "T", "a", "b", "l", "e", "N", "a", "m", "e">>, <<"S", "e", "r", "v", "i", "c", "e", "T", "o", "k", "e", "n", "s", "T", "a", "b", "l", "e", "N", "a", "m", "e">>,
          <<"R", "a", "t", "e", "L", "i", "m", "i", "t", "T", "a", "b", "l", "e", "N", "a", "m", "e">>, <<"A", "p", "p", "l", "i", "c", "a", "t", "i", "o", "n", "s", "T", "a", "b", "l", "e", "N", "a", "m", "e">>, <<"E", "n", "v", "i", "r", "o", "n", "m", "e", "n", "t", "s", "T", "a", "b", "l", "e", "N", "a", "m", "e">>,
          <<"T", "e", "a", "m", "s", "T", "a", "b", "l", "e", "N", "a", "m", "e">>, <<"T", "e", "a", "m", "M", "e", "m", "b", "e", "r", "s", "h", "i", "p", "s", "T", "a", "b", "l", "e", "N", "a", "m", "e">>, <<"T", "e", "a", "m", "L", "i", "n", "k", "s", "T", "a", "b", "l", "e", "N", "a", "m", "e">>,
          <<"R", "e", "q", "u", "e", "s", "t", "s", "T", "a", "b", "l", "e", "N", "a", "m", "e">>, <<"R", "e", "q", "u", "e", "s", "t", "C", "o", "m", "m", "e", "n", "t", "s", "T", "a", "b", "l", "e", "N", "a", "m", "e">>, <<"A", "c", "c", "e", "s", "s", "G", "r", "a", "n", "t", "s", "T", "a", "b", "l", "e", "N", "a", "m", "e">>,
          <<"V", "i", "s", "i", "t", "o", "r", "s", "T", "a", "b", "l", "e", "N", "a", "m", "e">>, <<"U", "s", "e", "r", "P", "e", "r", "m", "i", "s", "s", "i", "o", "n", "s", "T", "a", "b", "l", "e", "N", "a", "m", "e">>, <<"A", "u", "d", "i", "t", "L", "o", "g", "s", "T", "a", "b", "l", "e", "N", "a", "m", "e">>,
          <<"P", "l", "a", "n", "s", "T", "a", "b", "l", "e", "N", "a", "m", "e">>, <<"P", "r", "o", "f", "i", "l", "e", "B", "u", "c", "k", "e", "t", "N", "a", "m", "e">>, <<"A", "s", "s", "e", "t", "s", "B", "u", "c", "k", "e", "t", "N", "a", "m", "e">>,
          <<"E", "m", "a", "i", "l", "T", "o", "p", "i", "c", "A", "r", "n">>, <<"E", "m", "a", "i", "l", "L", "o", "g", "G", "r", "o", "u", "p", "N", "a", "m", "e">>, <<"E", "m", "a", "i", "l", "R", "o", "l", "e", "A", "r", "n">>}

\* Outputs?.forEach over one stack's outputs: an output with a key and a value
\* whose key is among `keys` is assigned to the outputs object
RECURSIVE assignOutputs(_, _, _)
assignOutputs(outputs, list, keys) ==
    IF Len(list) = 0 THEN outputs
    ELSE assignOutputs(
           IF Truthy(list[1].OutputKey) /\ Truthy(list[1].OutputValue) /\ list[1].OutputKey.s \in keys
           THEN (list[1].OutputKey.s :> list[1].OutputValue) @@ outputs
           ELSE outputs,
           Tail(list), keys)

\* the outputs object after both stacks' outputs were processed
extractOutputs(version, umbroOutputs, vercelOutputs) ==
    assignOutputs(assignOutputs(EmptyEnv, umbroOutputs, umbroOutputKeys(version)),
                  vercelOutputs, {<<"V", "e", "r", "c", "e", "l", "R", "o", "l", "e", "A", "r", "n">>})

\* outputs.Field
outputField(outputs, field) == IF field \in DOMAIN outputs THEN outputs[field] ELSE None

\* the lines getCloudFormationOutputs logs once the outputs are extracted
outputsLog(version, outputs) ==
    <<LogLine("log", <<"C", "l", "o", "u", "d", "F", "o", "r", "m", "a", "t", "i", "o", "n", " ", "o", "u", "t", "p", "u", "t", "s", " ", "r", "e", "t", "r", "i", "e", "v", "e", "d", ":">>),
      LogLine("log", <<" ", " ", " ", "A", "c", "c", "o", "u", "n", "t", " ", "I", "D", ":", " ">> \o templateText(outputField(outputs, <<"A", "c", "c", "o", "u", "n", "t", "I", "d">>))),
      LogLine("log", <<" ", " ", " ", "R", "e", "g", "i", "o", "n", ":", " ">> \o templateText(outputField(outputs, <<"R", "e", "g", "i", "o", "n">>))),
      LogLine("log", <<" ", " ", " ", "R", "o", "l", "e", " ", "A", "R", "N", ":", " ">> \o templateText(outputField(outputs, <<"V", "e", "r", "c", "e", "l", "R", "o", "l", "e", "A", "r", "n">>))),
      LogLine("log", <<" ", " ", " ", "U", "s", "e", "r", "s", " ", "T", "a", "b", "l", "e", ":", " ">> \o templateText(outputField(outputs, <<"U", "s", "e", "r", "s", "T", "a", "b", "l", "e", "N", "a", "m", "e">>))),
      LogLine("log", <<" ", " ", " ", "S", "e", "r", "v", "i", "c", "e", " ", "T", "o", "k", "e", "n", "s", " ", "T", "a", "b", "l", "e", ":", " ">> \o templateText(outputField(outputs, <<"S", "e", "r", "v", "i", "c", "e", "T", "o", "k", "e", "n", "s", "T", "a", "b", "l", "e", "N", "a", "m", "e">>)))>>
    \o (IF version = "scripts/update-vercel-env.ts" THEN <<>>
        ELSE <<LogLine("log", <<" ", " ", " ", "R", "a", "t", "e", " ", "L", "i", "m", "i", "t", " ", "T", "a", "b", "l", "e", ":", " ">> \o templateText(outputField(outputs, <<"R", "a", "t", "e", "L", "i", "m", "i", "t", "T", "a", "b", "l", "e", "N", "a", "m", "e">>))),
               LogLine("log", <<" ", " ", " ", "E", "m", "a", "i", "l", " ", "T", "o", "p", "i", "c", " ", "A", "R", "N", ":", " ">> \o templateText(outputField(outputs, <<"E", "m", "a", "i", "l", "T", "o", "p", "i", "c", "A", "r", "n">>))),
               LogLine("log", <<" ", " ", " ", "E", "m", "a", "i", "l", " ", "L", "o", "g", " ", "G", "r", "o", "u", "p", ":", " ">> \o templateText(outputField(outputs, <<"E", "m", "a", "i", "l", "L", "o", "g", "G", "r", "o", "u", "p", "N", "a", "m", "e">>))),
               LogLine("log", <<" ", " ", " ", "E", "m", "a", "i", "l", " ", "R", "o", "l", "e", " ", "A", "R", "N", ":", " ">> \o templateText(outputField(outputs, <<"E", "m", "a", "i", "l", "R", "o", "l", "e", "A", "r", "n">>)))>>)

\* createEnvironmentVariables: the output field, the Vercel key and the type
\* of each `if (outputs.Field) envVars.push(...)`, in the order of the code
envVarTable(version) ==
    IF version = "scripts/update-vercel-env.ts"
    THEN <<[output |-> <<"A", "c", "c", "o", "u", "n", "t", "I", "d">>, key |-> <<"A", "W", "S", "_", "A", "C", "C", "O", "U", "N", "T", "_", "I", "D">>, type |-> "plain"],
           [output |-> <<"R", "e", "g", "i", "o", "n">>, key |-> <<"A", "W", "S", "_", "R", "E", "G", "I", "O", "N">>, type |-> "plain"],
           [output |-> <<"V", "e", "r", "c", "e", "l", "R", "o", "l", "e", "A", "r", "n">>, key |-> <<"A", "W", "S", "_", "R", "O", "L", "E", "_", "A", "R", "N">>, type |-> "plain"],
           [output |-> <<"U", "s", "e", "r", "s", "T", "a", "b", "l", "e", "N", "a", "m", "e">>, key |-> <<"U", "S", "E", "R", "S", "_", "T", "A", "B", "L", "E", "_", "N", "A", "M", "E">>, type |-> "plain"],
           [output |-> <<"S", "e", "r", "v", "i", "c", "e", "T", "o", "k", "e", "n", "s", "T", "a", "b", "l", "e", "N", "a", "m", "e">>, key |-> <<"S", "E", "R", "V", "I", "C", "E", "_", "T", "O", "K", "E", "N", "S", "_", "T", "A", "B", "L", "E", "_", "N", "A", "M", "E">>, type |-> "plain"]>>
    ELSE <<[output |-> <<"A", "c", "c", "o", "u", "n", "t", "I", "d">>, key |-> <<"A", "W", "S", "_", "A", "C", "C", "O", "U", "N", "T", "_", "I", "D">>, type |-> "plain"],
           [output |-> <<"R", "e", "g", "i", "o", "n">>, key |-> <<"A", "W", "S", "_", "R", "E", "G", "I", "O", "N">>, type |-> "plain"],
           [output |-> <<"V", "e", "r", "c", "e", "l", "R", "o", "l", "e", "A", "r", "n">>, key |-> <<"A", "W", "S", "_", "R", "O", "L", "E", "_", "A", "R", "N">>, type |-> "plain"],
           [output |-> <<"U", "s", "e", "r", "s", "T", "a", "b", "l", "e", "N", "a", "m", "e">>, key |-> <<"T", "A", "B", "L", "E", "_", "N", "A", "M", "E", "_", "U", "S", "E", "R", "S">>, type |-> "encrypted"],
           [output |-> <<"S", "e", "r", "v", "i", "c", "e", "T", "o", "k", "e", "n", "s", "T", "a", "b", "l", "e", "N", "a", "m", "e">>, key |-> <<"T", "A", "B", "L", "E", "_", "N", "A", "M", "E", "_", "S", "E", "R", "V", "I", "C", "E", "_", "T", "O", "K", "E", "N", "S">>, type |-> "encrypted"],
           [output |-> <<"R", "a", "t", "e", "L", "i", "m", "i", "t", "T", "a", "b", "l", "e", "N", "a", "m", "e">>, key |-> <<"T", "A", "B", "L", "E", "_", "N", "A", "M", "E", "_", "R", "A", "T", "E", "_", "L", "I", "M", "I", "T">>, type |-> "plain"],
           [output |-> <<"A", "p", "p", "l", "i", "c", "a", "t", "i", "o", "n", "s", "T", "a", "b", "l", "e", "N", "a", "m", "e">>, key |-> <<"T", "A", "B", "L", "E", "_", "N", "A", "M", "E", "_", "A", "P", "P", "L", "I", "C", "A", "T", "I", "O", "N", "S">>, type |-> "plain"],
           [output |-> <<"E", "n", "v", "i", "r", "o", "n", "m", "e", "n", "t", "s", "T", "a", "b", "l", "e", "N", "a", "m", "e">>, key |-> <<"T", "A", "B", "L", "E", "_", "N", "A", "M", "E", "_", "E", "N", "V", "I", "R", "O", "N", "M", "E", "N", "T", "S">>, type |-> "plain"],
           [output |-> <<"T", "e", "a", "m", "s", "T", "a", "b", "l", "e", "N", "a", "m", "e">>, key |-> <<"T", "A", "B", "L", "E", "_", "N", "A", "M", "E", "_", "T", "E", "A", "M", "S">>, type |-> "plain"],
           [output |-> <<"T", "e", "a", "m", "M", "e", "m", "b", "e", "r", "s", "h", "i", "p", "s", "T", "a", "b", "l", "e", "N", "a", "m", "e">>, key |-> <<"T", "A", "B", "L", "E", "_", "N", "A", "M", "E", "_", "T", "E", "A", "M", "_", "M", "E", "M", "B", "E", "R", "S", "H", "I", "P", "S">>, type |-> "plain"],
           [output |-> <<"T", "e", "a", "m", "L", "i", "n", "k", "s", "T", "a", "b", "l", "e", "N", "a", "m", "e">>, key |-> <<"T", "A", "B", "L", "E", "_", "N", "A", "M", "E", "_", "T", "E", "A", "M", "_", "L", "I", "N", "K", "S">>, type |-> "plain"],
           [output |-> <<"R", "e", "q", "u", "e", "s", "t", "s", "T", "a", "b", "l", "e", "N", "a", "m", "e">>, key |-> <<"T", "A", "B", "L", "E", "_", "N", "A", "M", "E", "_", "R", "E", "Q", "U", "E", "S", "T", "S">>, type |-> "plain"],
           [output |-> <<"R", "e", "q", "u", "e", "s", "t", "C", "o", "m", "m", "e", "n", "t", "s", "T", "a", "b", "l", "e", "N", "a", "m", "e">>, key |-> <<"T", "A", "B", "L", "E", "_", "N", "A", "M", "E", "_", "R", "E", "Q", "U", "E", "S", "T", "_", "C", "O", "M", "M", "E", "N", "T", "S">>, type |-> "plain"],
           [output |-> <<"A", "c", "c", "e", "s", "s", "G", "r", "a", "n", "t", "s", "T", "a", "b", "l", "e", "N", "a", "m", "e">>, key |-> <<"T", "A", "B", "L", "E", "_", "N", "A", "M", "E", "_", "A", "C", "C", "E", "S", "S", "_", "G", "R", "A", "N", "T", "S">>, type |-> "encrypted"],
           [output |-> <<"V", "i", "s", "i", "t", "o", "r", "s", "T", "a", "b", "l", "e", "N", "a", "m", "e">>, key |-> <<"T", "A", "B", "L", "E", "_", "N", "A", "M", "E", "_", "V", "I", "S", "I", "T", "O", "R", "S">>, type |-> "plain"],
           [output |-> <<"U", "s", "e", "r", "P", "e", "r", "m", "i", "s", "s", "i", "o", "n", "s", "T", "a", "b", "l", "e", "N", "a", "m", "e">>, key |-> <<"T", "A", "B", "L", "E", "_", "N", "A", "M", "E", "_", "U", "S", "E", "R", "_", "P", "E", "R", "M", "I", "S", "S", "I", "O", "N", "S">>, type |-> "encrypted"],
           [output |-> <<"A", "u", "d", "i", "t", "L", "o", "g", "s", "T", "a", "b", "l", "e", "N", "a", "m", "e">>, key |-> <<"T", "A", "B", "L", "E", "_", "N", "A", "M", "E", "_", "A", "U", "D", "I", "T", "_", "L", "O", "G", "S">>, type |-> "encrypted"],
           [output |-> <<"P", "l", "a", "n", "s", "T", "a", "b", "l", "e", "N", "a", "m", "e">>, key |-> <<"T", "A", "B", "L", "E", "_", "N", "A", "M", "E", "_", "P", "L", "A", "N", "S">>, type |-> "encrypted"],
           [output |-> <<"P", "r", "o", "f", "i", "l", "e", "B", "u", "c", "k", "e", "t", "N", "a", "m", "e">>, key |-> <<"B", "U", "C", "K", "E", "T", "_", "N", "A", "M", "E", "_", "P", "R", "O", "F", "I", "L", "E">>, type |-> "encrypted"],
           [output |-> <<"A", "s", "s", "e", "t", "s", "B", "u", "c", "k", "e", "t", "N", "a", "m", "e">>, key |-> <<"B", "U", "C", "K", "E", "T", "_", "N", "A", "M", "E", "_", "A", "S", "S", "E", "T", "S">>, type |-> "encrypted"],
           [output |-> <<"E", "m", "a", "i", "l", "T", "o", "p", "i", "c", "A", "r", "n">>, key |-> <<"E", "M", "A", "I", "L", "_", "S", "N", "S", "_", "T", "O", "P", "I", "C", "_", "A", "R", "N">>, type |-> "encrypted"],
           [output |-> <<"E", "m", "a", "i", "l", "L", "o", "g", "G", "r", "o", "u", "p", "N", "a", "m", "e">>, key |-> <<"E", "M", "A", "I", "L", "_", "C", "L", "O", "U", "D", "W", "A", "T", "C", "H", "_", "L", "O", "G", "_", "G", "R", "O", "U", "P">>, type |-> "encrypted"],
           [output |-> <<"E", "m", "a", "i", "l", "R", "o", "l", "e", "A", "r", "n">>, key |-> <<"E", "M", "A", "I", "L", "_", "I", "A", "M", "_", "R", "O", "L", "E", "_", "A", "R", "N">>, type |-> "encrypted"]>>

\* one pushed variable
EnvironmentVariable(key, value, target, type) == [key |-> key, value |-> value, target |-> target, type |-> type]

\* the variables pushed for the rows of the table whose output is set
pushedRows(rows, outputs, target) ==
    [i \in 1..Len(rows) |->
        EnvironmentVariable(rows[i].key, outputs[rows[i].output].s, target, rows[i].type)] \o <<>>
outputVariables(version, outputs, target) ==
    pushedRows(SelectSeq(envVarTable(version), LAMBDA r : Truthy(outputField(outputs, r.output))),
               outputs, target)

\* unnamed/part_000 only: the optional notification e-mail address
notificationVariables(version, env, target) ==
    IF version = "unnamed/part_000" /\ ~EnvMissing(env, <<"E", "M", "A", "I", "L", "_", "N", "O", "T", "I", "F", "I", "C", "A", "T", "I", "O", "N", "_", "E", "M", "A", "I", "L">>)
    THEN <<EnvironmentVariable(<<"E", "M", "A", "I", "L", "_", "N", "O", "T", "I", "F", "I", "C", "A", "T", "I", "O", "N", "_", "E", "M", "A", "I", "L">>, env[<<"E", "M", "A", "I", "L", "_", "N", "O", "T", "I", "F", "I", "C", "A", "T", "I", "O", "N", "_", "E", "M", "A", "I", "L">>], target, "encrypted")>>
    ELSE <<>>

\* the name of the seed variable of a stage
seedEnvVarNameOf(stage) ==
    IF stage = <<"P", "r", "o", "d", "u", "c", "t", "i", "o", "n">> THEN <<"N", "E", "X", "T", "A", "U", "T", "H", "_", "S", "E", "E", "D", "_", "P", "R", "O", "D", "U", "C", "T", "I", "O", "N">> ELSE <<"N", "E", "X", "T", "A", "U", "T", "H", "_", "S", "E", "E", "D", "_", "A", "L", "P", "H", "A">>

\* process.env[name]
envValue(env, name) == IF name \in DOMAIN env THEN JSString(env[name]) ELSE None

\* unnamed/part_000: the seed of the environment, else the fallback constant
\* of the stage, else that of Alpha
getSeedForStage(env, stage) ==
    IF Truthy(envValue(env, seedEnvVarNameOf(stage))) THEN envValue(env, seedEnvVarNameOf(stage))
    ELSE IF stage = <<"P", "r", "o", "d", "u", "c", "t", "i", "o", "n">> THEN JSString(<<"u", "m", "b", "r", "o", "-", "p", "r", "o", "d", "-", "s", "e", "e", "d", "-", "2", "0", "2", "4", "-", "d", "e", "t", "e", "r", "m", "i", "n", "i", "s", "t", "i", "c", "-", "f", "a", "l", "l", "b", "a", "c", "k">>)
    ELSE JSString(s_seedAlphaFallback)

\* the seed createEnvironmentVariables derives from: None when it skips
seedFor(version, env, stage) ==
    IF version = "scripts/update-vercel-env.ts"
    THEN (IF Truthy(envValue(env, seedEnvVarNameOf(stage))) THEN envValue(env, seedEnvVarNameOf(stage)) ELSE None)
    ELSE getSeedForStage(env, stage)

\* NEXTAUTH_SECRET and AUTH_SECRET published with only the first name
secretVariables_primaryOnly(nextAuthSecret, target) ==
    <<EnvironmentVariable(<<"N", "E", "X", "T", "A", "U", "T", "H", "_", "S", "E", "C", "R", "E", "T">>, nextAuthSecret, target, "encrypted")>>

\* both NEXTAUTH_SECRET and AUTH_SECRET, for compatibility
secretVariables(nextAuthSecret, target) ==
    <<EnvironmentVariable(<<"N", "E", "X", "T", "A", "U", "T", "H", "_", "S", "E", "C", "R", "E", "T">>, nextAuthSecret, target, "encrypted"),
      EnvironmentVariable(<<"A", "U", "T", "H", "_", "S", "E", "C", "R", "E", "T">>, nextAuthSecret, target, "encrypted")>>

\* the variables of the derived secret, none when there is no seed
derivedVariables(seed, stage, target) ==
    IF seed = None THEN <<>> ELSE secretVariables(deriveNextAuthSecret(seed.s, stage), target)

\* the warning of scripts/update-vercel-env.ts when the seed is not set
seedWarning(seed, stage, targets) ==
    IF seed = None
    THEN <<LogLine("warn", seedEnvVarNameOf(stage) \o <<" ", "n", "o", "t", " ", "s", "e", "t", ".", " ", "S", "k", "i", "p", "p", "i", "n", "g", " ", "N", "E", "X", "T", "A", "U", "T", "H", "_", "S", "E", "C", "R", "E", "T", " ", "f", "o", "r", " ", "t", "a", "r", "g", "e", "t", "s", " ", "[">>
                            \o join(targets, <<",", " ">>) \o <<"]", ".">>)>>
    ELSE <<>>

\* createEnvironmentVariables: the list of variables, with what it logs
createEnvironmentVariables(version, env, targets, outputs) ==
    [envVars |-> outputVariables(version, outputs, join(targets, <<",">>))
                   \o notificationVariables(version, env, join(targets, <<",">>))
                   \o derivedVariables(seedFor(version, env, determineStageFromTargets(targets)),
                                       determineStageFromTargets(targets), join(targets, <<",">>)),
     seedEnvVarName |-> seedEnvVarNameOf(determineStageFromTargets(targets)),
     seed |-> seedFor(version, env, determineStageFromTargets(targets)),
     log |-> seedWarning(seedFor(version, env, determineStageFromTargets(targets)),
                         determineStageFromTargets(targets), targets)]

\* Number in a template literal: the decimal digits of n
RECURSIVE decimal(_)
decimal(n) ==
    IF n < 10 THEN <<<<"0", "1", "2", "3", "4", "5", "6", "7", "8", "9">>[n + 1]>>
    ELSE decimal(n \div 10) \o decimal(n % 10)

\* the script's process before its first statement
NewRun(runNo) ==
    [pc |-> "start", runNo |-> runNo, targets |-> <<>>, outputs |-> EmptyEnv, envVars |-> <<>>,
     next |-> 0, calls |-> <<>>, log |-> <<>>, exitCode |-> -1, thrown |-> "none",
     seedEnvVarName |-> <<>>, seed |-> None]

\* the process ends: process.exit(1), an uncaught exception, or nothing left to do
Exit(run, code) == [run EXCEPT !.pc = "exited", !.exitCode = code]

\* console.log, console.warn, console.error
Logged(run, lines) == [run EXCEPT !.log = @ \o lines]

\* `   Setting KEY for [target]` with the value added
settingLine_withValue(envVar) ==
    LogLine("log", <<" ", " ", " ", "S", "e", "t", "t", "i", "n", "g", " ">> \o envVar.key \o <<"=">> \o envVar.value \o <<" ", "f", "o", "r", " ", "[">> \o envVar.target \o <<"]">>)

\* `   Setting KEY for [target]`
settingLine(envVar) ==
    LogLine("log", <<" ", " ", " ", "S", "e", "t", "t", "i", "n", "g", " ">> \o envVar.key \o <<" ", "f", "o", "r", " ", "[">> \o envVar.target \o <<"]">>)

\* new VercelEnvironmentUpdater() and updater.run() up to the await of the
\* two DescribeStacks calls; a missing required variable is an uncaught Error
startRun(run, env) ==
    IF Len(missingEnvVars(env)) > 0
    THEN Exit([run EXCEPT !.thrown = "Missing required environment variable"], 1)
    ELSE [Logged(run,
            <<LogLine("log", <<"T", "a", "r", "g", "e", "t", "s", ":", " ", "[">> \o join(targetsOf(env), <<",", " ">>) \o <<"]">>),
              LogLine("log", <<"P", "r", "o", "j", "e", "c", "t", ":", " ">> \o env[<<"V", "E", "R", "C", "E", "L", "_", "P", "R", "O", "J", "E", "C", "T", "_", "I", "D">>]),
              LogLine("log", <<"T", "e", "a", "m", ":", " ">> \o env[<<"V", "E", "R", "C", "E", "L", "_", "T", "E", "A", "M", "_", "I", "D">>]),
              LogLine("log", <<"S", "t", "a", "r", "t", "i", "n", "g", " ", "V", "e", "r", "c", "e", "l", " ", "e", "n", "v", "i", "r", "o", "n", "m", "e", "n", "t", " ", "v", "a", "r", "i", "a", "b", "l", "e", " ", "u", "p", "d", "a", "t", "e", ".", ".", ".">>),
              LogLine("log", <<"R", "e", "a", "d", "i", "n", "g", " ", "C", "l", "o", "u", "d", "F", "o", "r", "m", "a", "t", "i", "o", "n", " ", "o", "u", "t", "p", "u", "t", "s", " ", "f", "o", "r", " ", "s", "t", "a", "g", "e", ":", " ">>
                               \o determineStageFromTargets(targetsOf(env)))>>)
          EXCEPT !.pc = "reading", !.targets = targetsOf(env)]

\* the catch of getCloudFormationOutputs, then the catch of run
cfnFailed(run, error) ==
    Exit(Logged([run EXCEPT !.thrown = error],
                <<ErrorLine(<<"E", "r", "r", "o", "r", " ", "r", "e", "a", "d", "i", "n", "g", " ", "C", "l", "o", "u", "d", "F", "o", "r", "m", "a", "t", "i", "o", "n", " ", "o", "u", "t", "p", "u", "t", "s", ":">>, error),
                  ErrorLine(<<"F", "a", "i", "l", "e", "d", " ", "t", "o", " ", "u", "p", "d", "a", "t", "e", " ", "V", "e", "r", "c", "e", "l", " ", "e", "n", "v", "i", "r", "o", "n", "m", "e", "n", "t", " ", "v", "a", "r", "i", "a", "b", "l", "e", "s", ":">>, error)>>), 1)

\* run after createEnvironmentVariables returned: nothing to update, or the
\* first createProjectEnv call
afterCreate(run, created) ==
    IF Len(created.envVars) = 0
    THEN Exit(Logged([run EXCEPT !.seedEnvVarName = created.seedEnvVarName, !.seed = created.seed],
                     created.log \o <<LogLine("log", <<"N", "o", " ", "e", "n", "v", "i", "r", "o", "n", "m", "e", "n", "t", " ", "v", "a", "r", "i", "a", "b", "l", "e", "s", " ", "t", "o", " ", "u", "p", "d", "a", "t", "e">>)>>), 0)
    ELSE [Logged(run,
            created.log
              \o <<LogLine("log", <<"U", "p", "d", "a", "t", "i", "n", "g", " ">> \o decimal(Len(created.envVars)) \o <<" ", "e", "n", "v", "i", "r", "o", "n", "m", "e", "n", "t", " ", "v", "a", "r", "i", "a", "b", "l", "e", "s", ".", ".", ".">>),
                   settingLine(created.envVars[1])>>)
          EXCEPT !.pc = "upserting", !.envVars = created.envVars, !.next = 1,
                 !.seedEnvVarName = created.seedEnvVarName, !.seed = created.seed]

\* getCloudFormationOutputs once both stacks were found
afterOutputs(run, version, env, outputs) ==
    afterCreate(Logged([run EXCEPT !.outputs = outputs], outputsLog(version, outputs)),
                createEnvironmentVariables(version, env, run.targets, outputs))

\* the two DescribeStacks calls settle: a rejection, a missing stack, or the outputs
cfnResponds(run, version, env, cfn) ==
    IF cfn.kind = "rejected" THEN cfnFailed(run, cfn.error)
    ELSE IF cfn.umbro = None \/ cfn.vercel = None
    THEN cfnFailed(run, "Could not find required CloudFormation stacks")
    ELSE afterOutputs(run, version, env, extractOutputs(version, cfn.umbro.Outputs, cfn.vercel.Outputs))

\* the loop of updateVercelEnvironmentVariables after a call: the next call, or the end
afterUpsert(run) ==
    IF run.next < Len(run.envVars)
    THEN [Logged(run, <<settingLine(run.envVars[run.next + 1])>>) EXCEPT !.next = run.next + 1]
    ELSE Exit(Logged([run EXCEPT !.next = 0],
                     <<LogLine("log", <<"A", "l", "l", " ", "e", "n", "v", "i", "r", "o", "n", "m", "e", "n", "t", " ", "v", "a", "r", "i", "a", "b", "l", "e", "s", " ", "u", "p", "d", "a", "t", "e", "d", " ", "s", "u", "c", "c", "e", "s", "s", "f", "u", "l", "l", "y", "!">>)>>), 0)

\* a failed createProjectEnv is logged and the loop goes on
upsertResponds_continueOnError(run, ok, error) ==
    IF ok
    THEN afterUpsert(Logged([run EXCEPT !.calls = Append(@, [key |-> run.envVars[run.next].key, ok |-> TRUE])],
                            <<LogLine("log", <<" ", " ", " ">> \o run.envVars[run.next].key \o <<" ", "u", "p", "d", "a", "t", "e", "d", " ", "s", "u", "c", "c", "e", "s", "s", "f", "u", "l", "l", "y">>)>>))
    ELSE afterUpsert(Logged([run EXCEPT !.calls = Append(@, [key |-> run.envVars[run.next].key, ok |-> FALSE]),
                                        !.thrown = error],
                            <<ErrorLine(<<" ", " ", " ", "F", "a", "i", "l", "e", "d", " ", "t", "o", " ", "u", "p", "d", "a", "t", "e", " ">> \o run.envVars[run.next].key \o <<":">>, error)>>))

\* the pending createProjectEnv call settles: on success the loop goes on;
\* on failure the catch of the loop rethrows and the catch of run exits with 1
upsertResponds(run, ok, error) ==
    IF ok
    THEN afterUpsert(Logged([run EXCEPT !.calls = Append(@, [key |-> run.envVars[run.next].key, ok |-> TRUE])],
                            <<LogLine("log", <<" ", " ", " ">> \o run.envVars[run.next].key \o <<" ", "u", "p", "d", "a", "t", "e", "d", " ", "s", "u", "c", "c", "e", "s", "s", "f", "u", "l", "l", "y">>)>>))
    ELSE Exit(Logged([run EXCEPT !.calls = Append(@, [key |-> run.envVars[run.next].key, ok |-> FALSE]),
                                 !.thrown = error],
                     <<ErrorLine(<<" ", " ", " ", "F", "a", "i", "l", "e", "d", " ", "t", "o", " ", "u", "p", "d", "a", "t", "e", " ">> \o run.envVars[run.next].key \o <<":">>, error),
                       ErrorLine(<<"F", "a", "i", "l", "e", "d", " ", "t", "o", " ", "u", "p", "d", "a", "t", "e", " ", "V", "e", "r", "c", "e", "l", " ", "e", "n", "v", "i", "r", "o", "n", "m", "e", "n", "t", " ", "v", "a", "r", "i", "a", "b", "l", "e", "s", ":">>, error)>>), 1)

\* the requestBody of createProjectEnv
requestBody(envVar) ==
    [key |-> envVar.key, value |-> envVar.value, target |-> split(envVar.target, <<",">>), type |-> envVar.type]

\* Vercel's project variables: the positions holding the key for the same targets
sameVariable(store, req) == {i \in 1..Len(store) : store[i].key = req.key /\ store[i].target = req.target}

\* createProjectEnv without upsert semantics: one more variable each time
createProjectEnv_alwaysAdds(store, req) == Append(store, req)

\* createProjectEnv with upsert 'true': the variable of this key and targets
\* is replaced where it stands, and added when there is none
createProjectEnv(store, req) ==
    IF sameVariable(store, req) = {} THEN Append(store, req)
    ELSE [i \in 1..Len(store) |-> IF i \in sameVariable(store, req) THEN req ELSE store[i]]

(***************************************************************************)
(* lib/constructs/dynamodb.ts: the DynamoDB tables construct, in its two   *)
(* versions.  A table is the props handed to new Table: the construct id,  *)
(* the billing mode, the removal policy and the optional properties, which *)
(* are keys of the props only when the code passes them.  Table names, key *)
(* schemas and secondary indexes are left out.                             *)
(***************************************************************************)
DynamoDBVersions == {"three tables", "fifteen tables"}

\* the tables of a version in the order of construction: the construct id,
\* whether timeToLiveAttribute is passed and whether the props spread the
\* stage-dependent backup settings
TableDefinitions(version) ==
    IF version = "three tables"
    THEN << [id |-> "UsersTable", ttl |-> FALSE, spreadsBackups |-> TRUE],
            [id |-> "ServiceTokensTable", ttl |-> TRUE, spreadsBackups |-> TRUE],
            [id |-> "RateLimitTable", ttl |-> TRUE, spreadsBackups |-> FALSE] >>
    ELSE << [id |-> "UsersTable", ttl |-> FALSE, spreadsBackups |-> TRUE],
            [id |-> "TeamsTable", ttl |-> FALSE, spreadsBackups |-> TRUE],
            [id |-> "TeamMembershipsTable", ttl |-> FALSE, spreadsBackups |-> TRUE],
            [id |-> "TeamLinksTable", ttl |-> FALSE, spreadsBackups |-> TRUE],
            [id |-> "ApplicationsTable", ttl |-> FALSE, spreadsBackups |-> TRUE],
            [id |-> "EnvironmentsTable", ttl |-> FALSE, spreadsBackups |-> TRUE],
            [id |-> "ServiceTokensTable", ttl |-> TRUE, spreadsBackups |-> TRUE],
            [id |-> "RequestsTable", ttl |-> FALSE, spreadsBackups |-> TRUE],
            [id |-> "RequestCommentsTable", ttl |-> FALSE, spreadsBackups |-> TRUE],
            [id |-> "AccessGrantsTable", ttl |-> FALSE, spreadsBackups |-> TRUE],
            [id |-> "VisitorsTable", ttl |-> FALSE, spreadsBackups |-> TRUE],
            [id |-> "RateLimitTable", ttl |-> FALSE, spreadsBackups |-> TRUE],
            [id |-> "UserPermissionsTable", ttl |-> TRUE, spreadsBackups |-> TRUE],
            [id |-> "AuditLogsTable", ttl |-> FALSE, spreadsBackups |-> TRUE],
            [id |-> "PlansTable", ttl |-> FALSE, spreadsBackups |-> TRUE] >>

\* const needsBackups = stage === Stage.Beta || stage === Stage.Production
needsBackups(stage) == stage = Stage.Beta \/ stage = Stage.Production

\* const removalPolicy = isProduction ? RemovalPolicy.RETAIN : RemovalPolicy.DESTROY
removalPolicyOf(stage) == IF stage = Stage.Production THEN "RETAIN" ELSE "DESTROY"

\* ...(needsBackups && { pointInTimeRecoverySpecification: {...} }): spreading
\* false adds no key
backupProps(stage, def) ==
    IF def.spreadsBackups /\ needsBackups(stage)
    THEN "pointInTimeRecoverySpecification" :> [pointInTimeRecoveryEnabled |-> TRUE]
    ELSE EmptyEnv

ttlProps(def) == IF def.ttl THEN "timeToLiveAttribute" :> "expiresAt" ELSE EmptyEnv

\* new Table(this, id, {...})
NewTable(stage, def) ==
    [id |-> def.id, billingMode |-> "PAY_PER_REQUEST", removalPolicy |-> removalPolicyOf(stage)]
        @@ ttlProps(def) @@ backupProps(stage, def)

\* new DynamoDBConstruct(scope, id, { stage })
DynamoDBConstruct(version, stage) ==
    LET defs == TableDefinitions(version)
    IN [t |-> "DynamoDBConstruct",
        stageKey |-> toLowerCase(stage),
        tables |-> [i \in 1..Len(defs) |-> NewTable(stage, defs[i])]]

(***************************************************************************)
(* scripts/deploy-staged.ts: the staged deployment.  lib/app.ts is a       *)
(* string of characters; the two String.prototype.replace calls of         *)
(* updateAppFile are modelled by the regular expressions they are given: a *)
(* literal head, a lazy run of any characters, and the literal tail that   *)
(* closes the call, a comma and a line feed included.  Console output is   *)
(* not part of the state.                                                  *)
(***************************************************************************)
\* the pattern s has at position i (1-based)
MatchesAt(s, pattern, i) ==
    /\ i + Len(pattern) - 1 <= Len(s)
    /\ \A k \in 1..Len(pattern) : s[i + k - 1] = pattern[k]

\* the positions at or after from where the pattern is found
Occurrences(s, pattern, from) == {i \in from..Len(s) : MatchesAt(s, pattern, i)}

Least(S) == CHOOSE i \in S : \A j \in S : i <= j

\* content.replace(/head[\s\S]*?tail/, replacement): the leftmost match, the
\* shortest one from there, replaced once; the content itself when nothing
\* matches
replaceLazy(content, head, tail, replacement) ==
    LET starts == {i \in Occurrences(content, head, 1) :
                       Occurrences(content, tail, i + Len(head)) # {}}
    IN IF starts = {} THEN content
       ELSE LET i == Least(starts)
                j == Least(Occurrences(content, tail, i + Len(head)))
            IN SubSeq(content, 1, i - 1) \o replacement
                   \o SubSeq(content, j + Len(tail), Len(content))

\* /grantS3BucketAccess\(\{[\s\S]*?\}\),\n/
s_grantCallHead == <<"g", "r", "a", "n", "t", "S", "3", "B", "u", "c", "k", "e", "t", "A", "c", "c", "e", "s", "s", "(", "{">>
s_grantCallTail == <<"}", ")", ",", "\n">>

\* the comment line and the commented call the second pattern starts with
s_commentedCallHead == <<"/", "/", " ", "T", "e", "m", "p", "o", "r", "a", "r", "i", "l", "y", " ", "c", "o", "m", "m", "e", "n", "t", "e", "d", " ", "o", "u", "t", " ", "t", "o", " ", "a", "v", "o", "i", "d", " ", "c", "r", "o", "s", "s", "-", "s", "t", "a", "c", "k", " ", "r", "e", "f", "e", "r", "e", "n", "c", "e", " ", "i", "s", "s", "u", "e", "s", " ", "d", "u", "r", "i", "n", "g", " ", "b", "u", "c", "k", "e", "t", " ", "r", "e", "n", "a", "m", "e", "\n", "/", "/", " ", "g", "r", "a", "n", "t", "S", "3", "B", "u", "c", "k", "e", "t", "A", "c", "c", "e", "s", "s", "(", "{">>

\* the text the active call is replaced by when the grant is disabled
s_commentedGrant == <<"/", "/", " ", "T", "e", "m", "p", "o", "r", "a", "r", "i", "l", "y", " ", "c", "o", "m", "m", "e", "n", "t", "e", "d", " ", "o", "u", "t", " ", "t", "o", " ", "a", "v", "o", "i", "d", " ", "c", "r", "o", "s", "s", "-", "s", "t", "a", "c", "k", " ", "r", "e", "f", "e", "r", "e", "n", "c", "e", " ", "i", "s", "s", "u", "e", "s", " ", "d", "u", "r", "i", "n", "g", " ", "b", "u", "c", "k", "e", "t", " ", "r", "e", "n", "a", "m", "e", "\n", "/", "/", " ", "g", "r", "a", "n", "t", "S", "3", "B", "u", "c", "k", "e", "t", "A", "c", "c", "e", "s", "s", "(", "{", "\n", "/", "/", " ", "\t", "r", "o", "l", "e", ":", " ", "v", "e", "r", "c", "e", "l", "O", "i", "d", "c", "S", "t", "a", "c", "k", ".", "r", "o", "l", "e", ",", "\n", "/", "/", " ", "\t", "b", "u", "c", "k", "e", "t", "s", ":", " ", "[", "\n", "/", "/", " ", "\t", "\t", "u", "m", "b", "r", "o", ".", "s", "t", "o", "r", "a", "g", "e", ".", "p", "r", "o", "f", "i", "l", "e", "B", "u", "c", "k", "e", "t", ",", "\n", "/", "/", " ", "\t", "\t", "u", "m", "b", "r", "o", ".", "s", "t", "o", "r", "a", "g", "e", ".", "a", "s", "s", "e", "t", "s", "B", "u", "c", "k", "e", "t", ",", "\n", "/", "/", " ", "\t", "]", ",", "\n", "/", "/", " ", "}", ")", "\n">>

\* the text written when the grant is enabled again
s_activeGrant == <<"g", "r", "a", "n", "t", "S", "3", "B", "u", "c", "k", "e", "t", "A", "c", "c", "e", "s", "s", "(", "{", "\n", "\t", "r", "o", "l", "e", ":", " ", "v", "e", "r", "c", "e", "l", "O", "i", "d", "c", "S", "t", "a", "c", "k", ".", "r", "o", "l", "e", ",", "\n", "\t", "b", "u", "c", "k", "e", "t", "s", ":", " ", "[", "\n", "\t", "\t", "u", "m", "b", "r", "o", ".", "s", "t", "o", "r", "a", "g", "e", ".", "p", "r", "o", "f", "i", "l", "e", "B", "u", "c", "k", "e", "t", ",", "\n", "\t", "\t", "u", "m", "b", "r", "o", ".", "s", "t", "o", "r", "a", "g", "e", ".", "a", "s", "s", "e", "t", "s", "B", "u", "c", "k", "e", "t", ",", "\n", "\t", "]", ",", "\n", "}", ")">>

\* the content updateAppFile writes for a content read
updateAppFile_content(content, enableS3Permissions) ==
    IF enableS3Permissions
    THEN replaceLazy(content, s_commentedCallHead, s_grantCallTail, s_activeGrant)
    ELSE replaceLazy(content, s_grantCallHead, s_grantCallTail, s_commentedGrant)

\* lib/app.ts (lines 6 and 30-59; the other lines hold no part of a pattern)
s_appTs == <<"i", "m", "p", "o", "r", "t", " ", "{", " ", "g", "r", "a", "n", "t", "D", "y", "n", "a", "m", "o", "D", "B", "A", "c", "c", "e", "s", "s", ",", " ", "g", "r", "a", "n", "t", "S", "3", "B", "u", "c", "k", "e", "t", "A", "c", "c", "e", "s", "s", " ", "}", " ", "f", "r", "o", "m", " ", "'", ".", "/", "u", "t", "i", "l", "s", "/", "i", "n", "t", "e", "g", "r", "a", "t", "i", "o", "n", ".", "j", "s", "'", "\n", "/", "/", " ", "G", "r", "a", "n", "t", " ", "s", "p", "e", "c", "i", "f", "i", "c", " ", "t", "a", "b", "l", "e", " ", "p", "e", "r", "m", "i", "s", "s", "i", "o", "n", "s", " ", "a", "f", "t", "e", "r", " ", "b", "o", "t", "h", " ", "s", "t", "a", "c", "k", "s", " ", "a", "r", "e", " ", "c", "r", "e", "a", "t", "e", "d", " ", "(", "a", "v", "o", "i", "d", "s", " ", "c", "r", "o", "s", "s", "-", "s", "t", "a", "c", "k", " ", "e", "x", "p", "o", "r", "t", "s", ")", "\n", "g", "r", "a", "n", "t", "D", "y", "n", "a", "m", "o", "D", "B", "A", "c", "c", "e", "s", "s", "(", "{", "\n", " ", " ", " ", " ", "r", "o", "l", "e", ":", " ", "v", "e", "r", "c", "e", "l", "O", "i", "d", "c", "S", "t", "a", "c", "k", ".", "r", "o", "l", "e", ",", "\n", " ", " ", " ", " ", "t", "a", "b", "l", "e", "s", ":", " ", "[", "\n", " ", " ", " ", " ", " ", " ", " ", " ", "u", "m", "b", "r", "o", ".", "d", "a", "t", "a", "b", "a", "s", "e", ".", "u", "s", "e", "r", "s", "T", "a", "b", "l", "e", ",", "\n", " ", " ", " ", " ", " ", " ", " ", " ", "u", "m", "b", "r", "o", ".", "d", "a", "t", "a", "b", "a", "s", "e", ".", "s", "e", "r", "v", "i", "c", "e", "T", "o", "k", "e", "n", "s", "T", "a", "b", "l", "e", ",", "\n", " ", " ", " ", " ", " ", " ", " ", " ", "u", "m", "b", "r", "o", ".", "d", "a", "t", "a", "b", "a", "s", "e", ".", "r", "a", "t", "e", "L", "i", "m", "i", "t", "T", "a", "b", "l", "e", ",", "\n", " ", " ", " ", " ", " ", " ", " ", " ", "u", "m", "b", "r", "o", ".", "d", "a", "t", "a", "b", "a", "s", "e", ".", "t", "e", "a", "m", "s", "T", "a", "b", "l", "e", ",", "\n", " ", " ", " ", " ", " ", " ", " ", " ", "u", "m", "b", "r", "o", ".", "d", "a", "t", "a", "b", "a", "s", "e", ".", "t", "e", "a", "m", "M", "e", "m", "b", "e", "r", "s", "h", "i", "p", "s", "T", "a", "b", "l", "e", ",", "\n", " ", " ", " ", " ", " ", " ", " ", " ", "u", "m", "b", "r", "o", ".", "d", "a", "t", "a", "b", "a", "s", "e", ".", "t", "e", "a", "m", "L", "i", "n", "k", "s", "T", "a", "b", "l", "e", ",", "\n", " ", " ", " ", " ", " ", " ", " ", " ", "u", "m", "b", "r", "o", ".", "d", "a", "t", "a", "b", "a", "s", "e", ".", "a", "p", "p", "l", "i", "c", "a", "t", "i", "o", "n", "s", "T", "a", "b", "l", "e", ",", "\n", " ", " ", " ", " ", " ", " ", " ", " ", "u", "m", "b", "r", "o", ".", "d", "a", "t", "a", "b", "a", "s", "e", ".", "e", "n", "v", "i", "r", "o", "n", "m", "e", "n", "t", "s", "T", "a", "b", "l", "e", ",", "\n", " ", " ", " ", " ", " ", " ", " ", " ", "u", "m", "b", "r", "o", ".", "d", "a", "t", "a", "b", "a", "s", "e", ".", "r", "e", "q", "u", "e", "s", "t", "s", "T", "a", "b", "l", "e", ",", "\n", " ", " ", " ", " ", " ", " ", " ", " ", "u", "m", "b", "r", "o", ".", "d", "a", "t", "a", "b", "a", "s", "e", ".", "r", "e", "q", "u", "e", "s", "t", "C", "o", "m", "m", "e", "n", "t", "s", "T", "a", "b", "l", "e", ",", "\n", " ", " ", " ", " ", " ", " ", " ", " ", "u", "m", "b", "r", "o", ".", "d", "a", "t", "a", "b", "a", "s", "e", ".", "a", "c", "c", "e", "s", "s", "G", "r", "a", "n", "t", "s", "T", "a", "b", "l", "e", ",", "\n", " ", " ", " ", " ", " ", " ", " ", " ", "u", "m", "b", "r", "o", ".", "d", "a", "t", "a", "b", "a", "s", "e", ".", "v", "i", "s", "i", "t", "o", "r", "s", "T", "a", "b", "l", "e", ",", "\n", " ", " ", " ", " ", " ", " ", " ", " ", "u", "m", "b", "r", "o", ".", "d", "a", "t", "a", "b", "a", "s", "e", ".", "u", "s", "e", "r", "P", "e", "r", "m", "i", "s", "s", "i", "o", "n", "s", "T", "a", "b", "l", "e", ",", "\n", " ", " ", " ", " ", " ", " ", " ", " ", "u", "m", "b", "r", "o", ".", "d", "a", "t", "a", "b", "a", "s", "e", ".", "a", "u", "d", "i", "t", "L", "o", "g", "s", "T", "a", "b", "l", "e", ",", "\n", " ", " ", " ", " ", " ", " ", " ", " ", "u", "m", "b", "r", "o", ".", "d", "a", "t", "a", "b", "a", "s", "e", ".", "p", "l", "a", "n", "s", "T", "a", "b", "l", "e", ",", "\n", " ", " ", " ", " ", "]", ",", "\n", "}", ")", "\n", "\n", "/", "/", " ", "G", "r", "a", "n", "t", " ", "S", "3", " ", "p", "e", "r", "m", "i", "s", "s", "i", "o", "n", "s", " ", "f", "o", "r", " ", "p", "r", "o", "f", "i", "l", "e", " ", "a", "n", "d", " ", "a", "s", "s", "e", "t", " ", "b", "u", "c", "k", "e", "t", "s", "\n", "g", "r", "a", "n", "t", "S", "3", "B", "u", "c", "k", "e", "t", "A", "c", "c", "e", "s", "s", "(", "{", "\n", "\t", "r", "o", "l", "e", ":", " ", "v", "e", "r", "c", "e", "l", "O", "i", "d", "c", "S", "t", "a", "c", "k", ".", "r", "o", "l", "e", ",", "\n", "\t", "b", "u", "c", "k", "e", "t", "s", ":", " ", "[", "\n", "\t", "\t", "u", "m", "b", "r", "o", ".", "s", "t", "o", "r", "a", "g", "e", ".", "p", "r", "o", "f", "i", "l", "e", "B", "u", "c", "k", "e", "t", ",", " ", "/", "/", " ", "P", "r", "o", "f", "i", "l", "e", " ", "b", "u", "c", "k", "e", "t", " ", "(", "u", "s", "i", "n", "g", " ", "e", "x", "i", "s", "t", "i", "n", "g", " ", "a", "v", "a", "t", "a", "r", " ", "b", "u", "c", "k", "e", "t", " ", "n", "a", "m", "e", ")", "\n", "\t", "\t", "u", "m", "b", "r", "o", ".", "s", "t", "o", "r", "a", "g", "e", ".", "a", "s", "s", "e", "t", "s", "B", "u", "c", "k", "e", "t", ",", "\n", "\t", "]", ",", "\n", "}", ")", "\n">>

\* an app file that imports the grant and does not call it
s_appTsWithoutCall == <<"i", "m", "p", "o", "r", "t", " ", "{", " ", "g", "r", "a", "n", "t", "D", "y", "n", "a", "m", "o", "D", "B", "A", "c", "c", "e", "s", "s", ",", " ", "g", "r", "a", "n", "t", "S", "3", "B", "u", "c", "k", "e", "t", "A", "c", "c", "e", "s", "s", " ", "}", " ", "f", "r", "o", "m", " ", "'", ".", "/", "u", "t", "i", "l", "s", "/", "i", "n", "t", "e", "g", "r", "a", "t", "i", "o", "n", ".", "j", "s", "'", "\n", "/", "/", " ", "G", "r", "a", "n", "t", " ", "S", "3", " ", "p", "e", "r", "m", "i", "s", "s", "i", "o", "n", "s", " ", "u", "s", "i", "n", "g", " ", "i", "n", "l", "i", "n", "e", " ", "p", "o", "l", "i", "c", "i", "e", "s", " ", "t", "o", " ", "a", "v", "o", "i", "d", " ", "c", "r", "o", "s", "s", "-", "s", "t", "a", "c", "k", " ", "r", "e", "f", "e", "r", "e", "n", "c", "e", "s", "\n">>

\* an app file whose call is followed by a comma, as the first pattern expects
s_appTsCallWithComma == <<"/", "/", " ", "G", "r", "a", "n", "t", " ", "S", "3", " ", "p", "e", "r", "m", "i", "s", "s", "i", "o", "n", "s", " ", "f", "o", "r", " ", "p", "r", "o", "f", "i", "l", "e", " ", "a", "n", "d", " ", "a", "s", "s", "e", "t", " ", "b", "u", "c", "k", "e", "t", "s", "\n", "g", "r", "a", "n", "t", "S", "3", "B", "u", "c", "k", "e", "t", "A", "c", "c", "e", "s", "s", "(", "{", "\n", "\t", "r", "o", "l", "e", ":", " ", "v", "e", "r", "c", "e", "l", "O", "i", "d", "c", "S", "t", "a", "c", "k", ".", "r", "o", "l", "e", ",", "\n", "\t", "b", "u", "c", "k", "e", "t", "s", ":", " ", "[", "\n", "\t", "\t", "u", "m", "b", "r", "o", ".", "s", "t", "o", "r", "a", "g", "e", ".", "p", "r", "o", "f", "i", "l", "e", "B", "u", "c", "k", "e", "t", ",", "\n", "\t", "\t", "u", "m", "b", "r", "o", ".", "s", "t", "o", "r", "a", "g", "e", ".", "a", "s", "s", "e", "t", "s", "B", "u", "c", "k", "e", "t", ",", "\n", "\t", "]", ",", "\n", "}", ")", ",", "\n">>

\* an app file in which a second call, also followed by a comma, comes after
s_appTsTwoCallsWithCommas == <<"/", "/", " ", "G", "r", "a", "n", "t", " ", "S", "3", " ", "p", "e", "r", "m", "i", "s", "s", "i", "o", "n", "s", " ", "f", "o", "r", " ", "p", "r", "o", "f", "i", "l", "e", " ", "a", "n", "d", " ", "a", "s", "s", "e", "t", " ", "b", "u", "c", "k", "e", "t", "s", "\n", "g", "r", "a", "n", "t", "S", "3", "B", "u", "c", "k", "e", "t", "A", "c", "c", "e", "s", "s", "(", "{", "\n", "\t", "r", "o", "l", "e", ":", " ", "v", "e", "r", "c", "e", "l", "O", "i", "d", "c", "S", "t", "a", "c", "k", ".", "r", "o", "l", "e", ",", "\n", "\t", "b", "u", "c", "k", "e", "t", "s", ":", " ", "[", "\n", "\t", "\t", "u", "m", "b", "r", "o", ".", "s", "t", "o", "r", "a", "g", "e", ".", "p", "r", "o", "f", "i", "l", "e", "B", "u", "c", "k", "e", "t", ",", "\n", "\t", "\t", "u", "m", "b", "r", "o", ".", "s", "t", "o", "r", "a", "g", "e", ".", "a", "s", "s", "e", "t", "s", "B", "u", "c", "k", "e", "t", ",", "\n", "\t", "]", ",", "\n", "}", ")", ",", "\n", "g", "r", "a", "n", "t", "D", "y", "n", "a", "m", "o", "D", "B", "A", "c", "c", "e", "s", "s", "(", "{", "\n", "\t", "r", "o", "l", "e", ":", " ", "v", "e", "r", "c", "e", "l", "O", "i", "d", "c", "S", "t", "a", "c", "k", ".", "r", "o", "l", "e", ",", "\n", "\t", "t", "a", "b", "l", "e", "s", ":", " ", "[", "u", "m", "b", "r", "o", ".", "d", "a", "t", "a", "b", "a", "s", "e", ".", "u", "s", "e", "r", "s", "T", "a", "b", "l", "e", "]", ",", "\n", "}", ")", ",", "\n">>

\* the script as started: nothing written, no command run yet
NewDeployment(appFile) ==
    [pc |-> "start", file |-> appFile, updates |-> <<>>, commands |-> <<>>, exitCode |-> -1]

\* updateAppFile(enableS3Permissions): read, replace, write back; the read
\* throws when lib/app.ts is not there
updateAppFile(run, enableS3Permissions) ==
    IF run.file = None
    THEN [run EXCEPT !.pc = "exited", !.exitCode = 0,
                     !.updates = Append(@, [enable |-> enableS3Permissions, threw |-> TRUE])]
    ELSE [run EXCEPT !.file = JSString(updateAppFile_content(run.file.s, enableS3Permissions)),
                     !.updates = Append(@, [enable |-> enableS3Permissions, threw |-> FALSE])]

\* runCommand: execSync returned (ok) or threw; the app file the command saw
runCommand(run, command, ok) ==
    [run EXCEPT !.commands = Append(@, [command |-> command, ok |-> ok, appFile |-> run.file])]

\* a main that goes on to the next step whatever runCommand returned
exitUnlessOk_goesOn(run, ok, nextPc) == [run EXCEPT !.pc = nextPc]

\* if (!runCommand(...)) { process.exit(1) }
exitUnlessOk(run, ok, nextPc) ==
    IF ok THEN [run EXCEPT !.pc = nextPc] ELSE [run EXCEPT !.pc = "exited", !.exitCode = 1]

(***************************************************************************)
(* utils/security.ts, utils/iam.ts, constructs/iam.ts and stacks/users.ts: *)
(* the IAM helpers and the stack that uses them.  An identity is a record  *)
(* of its kind, its name and the policy statements added to it; ARNs and   *)
(* the lists of read actions of utils/permissions.ts are named, not        *)
(* spelled out.                                                            *)
(***************************************************************************)
mfaActions == <<"sts:GetSessionToken", "iam:ChangePassword", "iam:CreateVirtualMFADevice",
                "iam:EnableMFADevice", "iam:DeactivateMFADevice", "iam:DeleteVirtualMFADevice",
                "iam:ListMFADevices", "iam:ResyncMFADevice", "iam:GetUser">>

\* new PolicyStatement({...})
PolicyStatement(effect, actions, notActions, resources, conditions) ==
    [effect |-> effect, actions |-> actions, notActions |-> notActions,
     resources |-> resources, conditions |-> conditions]

\* entity.addToPolicy(statement)
addToPolicy(entity, statement) == [entity EXCEPT !.statements = Append(@, statement)]

denyMfaPolicy ==
    PolicyStatement("Deny", <<>>, mfaActions \o <<"sts:AssumeRole">>, <<"*">>,
                    [Bool |-> [key |-> "aws:MultiFactorAuthPresent", value |-> "false"]])

denyNoMfaPolicy(entity) == addToPolicy(entity, denyMfaPolicy)

grantMfaPermissions(user) ==
    addToPolicy(user, PolicyStatement("Allow", mfaActions, <<>>,
                                      <<"arn:aws:iam::account:mfa/*", "userArn">>, None))

grantAssumeRole(entity, roleArn) ==
    addToPolicy(entity, PolicyStatement("Allow", <<"sts:AssumeRole">>, <<>>, <<roleArn>>, None))

\* grantCloudFormationReadPermissions and its three siblings: one Allow
\* statement with the read actions of the service
grantReadPermissions(entity, service) ==
    addToPolicy(entity, PolicyStatement("Allow", <<"actions." \o service \o ".read">>, <<>>,
                                        <<"arn:aws:" \o service>>, None))

\* new Group / new Role / new User, then applyRemovalPolicy(DESTROY)
NewIdentity(kind, name) ==
    [kind |-> kind, name |-> name, removalPolicy |-> "DESTROY", statements |-> <<>>,
     managedPolicies |-> <<>>, assumedBy |-> None, groups |-> <<>>, tags |-> <<>>,
     passwordResetRequired |-> FALSE]

\* managedPolicies is None when the argument is left out
createGroup(groupName, managedPolicies) ==
    LET group == NewIdentity("Group", groupName)
        managed == IF managedPolicies = None THEN group
                   ELSE [group EXCEPT !.managedPolicies = managedPolicies.list]
    IN denyNoMfaPolicy(managed)

createSecureRole(roleName, assumedBy) ==
    [NewIdentity("Role", roleName) EXCEPT
        !.assumedBy = IF assumedBy = None THEN [principal |-> "AccountPrincipal"] ELSE assumedBy]

\* groups is None when the argument is left out; group.addUser(user) is kept
\* as the user's list of group names
createSecureUser(userName, email, groups) ==
    LET user == [NewIdentity("User", userName) EXCEPT
                     !.passwordResetRequired = TRUE,
                     !.tags = <<[key |-> "email", value |-> email]>>,
                     !.groups = IF groups = None THEN <<>>
                                ELSE [i \in 1..Len(groups.list) |-> groups.list[i].name]]
    IN denyNoMfaPolicy(grantMfaPermissions(user))

s_UmbroAdministrators == <<"U", "m", "b", "r", "o", "A", "d", "m", "i", "n", "i", "s", "t", "r", "a", "t", "o", "r", "s">>
s_UmbroDevelopers == <<"U", "m", "b", "r", "o", "D", "e", "v", "e", "l", "o", "p", "e", "r", "s">>
s_umbroSuffix == <<"-", "u", "m", "b", "r", "o">>
s_at == <<"@">>

\* the four read grants of a role of the users stack
grantStackReadPermissions(role) ==
    grantReadPermissions(grantReadPermissions(grantReadPermissions(grantReadPermissions(
        role, "cloudFormation"), "dynamoDb"), "iam"), "secretsManager")

\* new UsersStack(scope, id, props): the identities it creates, in order
UsersStack(developerEmails) ==
    LET adminRole == createSecureRole(s_UmbroAdministrators, None)
        adminGroup == grantAssumeRole(createGroup(s_UmbroAdministrators, None), "adminRole.roleArn")
        developersRole == createSecureRole(s_UmbroDevelopers, None)
        developersGroup == grantAssumeRole(createGroup(s_UmbroDevelopers, None), "developersRole.roleArn")
    IN <<adminGroup, grantStackReadPermissions(adminRole),
         developersGroup, grantStackReadPermissions(developersRole)>>
       \o [i \in 1..Len(developerEmails) |->
              createSecureUser(split(developerEmails[i], s_at)[1] \o s_umbroSuffix, developerEmails[i],
                               [list |-> <<adminGroup, developersGroup>>])]

s_coltenEmail == <<"c", "o", "l", "t", "e", "n", "k", "r", "a", "u", "t", "e", "r", "@", "g", "m", "a", "i", "l", ".", "c", "o", "m">>
s_otherEmail == <<"d", "e", "v", "@", "u", "m", "b", "r", "o", ".", "d", "e", "v">>
s_ReadOnlyAccess == <<"R", "e", "a", "d", "O", "n", "l", "y", "A", "c", "c", "e", "s", "s">>
s_standalone == <<"s", "t", "a", "n", "d", "a", "l", "o", "n", "e">>

(***************************************************************************)
(* scripts/verify-setup.ts: the setup verifier.  The two checks are        *)
(* started together and each runs from one answer to the next without      *)
(* interruption; the results list is shared.  Console output other than    *)
(* the list printed is not part of the state.                              *)
(***************************************************************************)
VerificationResult(check, status, message) == [check |-> check, status |-> status, message |-> message]

\* this.results.push({ check, status, message }) for each result in turn
addResults(run, results) == [run EXCEPT !.results = @ \o results]

\* the keys of a stack's outputs; none when the stack or its outputs are undefined
outputKeysOf(stackAnswer) ==
    IF stackAnswer = None \/ stackAnswer.Outputs = None THEN <<>> ELSE stackAnswer.Outputs.list

\* stack.Outputs?.length || 0
outputCount(stackAnswer) == IF stackAnswer.Outputs = None THEN 0 ELSE Len(stackAnswer.Outputs.list)

stackResult(name, stackAnswer) ==
    IF stackAnswer # None
    THEN VerificationResult(name, "pass", "Found stack with " \o ToString(outputCount(stackAnswer)) \o " outputs")
    ELSE VerificationResult(name, "fail", "Stack not found")

outputResult(expectedOutput, actualOutputs) ==
    IF includes(actualOutputs, expectedOutput)
    THEN VerificationResult("Output: " \o expectedOutput, "pass", "Present in CloudFormation")
    ELSE VerificationResult("Output: " \o expectedOutput, "fail", "Missing from CloudFormation")

expectedOutputs == <<"AccountId", "Region", "UsersTableName", "SessionsTableName", "ServiceTokensTableName">>

\* what verifyCloudFormationStacks records for an answer of CloudFormation
cloudFormationResults(cfn) ==
    IF cfn.kind = "rejected"
    THEN <<VerificationResult("CloudFormation Access", "fail", "Error: " \o cfn.error)>>
    ELSE <<stackResult("UmbroStack", cfn.umbro), stackResult("UmbroVercelOIDC", cfn.vercel)>>
           \o [i \in 1..Len(expectedOutputs) |-> outputResult(expectedOutputs[i], outputKeysOf(cfn.umbro))]
           \o <<outputResult("VercelRoleArn", outputKeysOf(cfn.vercel))>>

\* what verifyVercelSetup records when projects.get settles
projectResults(project) ==
    IF project.kind = "rejected"
    THEN <<VerificationResult("Vercel Access", "fail", "Error: " \o project.error)>>
    ELSE <<VerificationResult("Vercel Project Access", "pass", "Project: " \o project.name)>>

expectedEnvVars == <<"AWS_ACCOUNT_ID", "AWS_REGION", "AWS_ROLE_ARN", "USERS_TABLE_NAME",
                     "SESSIONS_TABLE_NAME", "SERVICE_TOKENS_TABLE_NAME">>

envVarResult(expectedEnvVar, actualEnvVars) ==
    IF includes(actualEnvVars, expectedEnvVar)
    THEN VerificationResult("Vercel Env: " \o expectedEnvVar, "pass", "Present in Vercel")
    ELSE VerificationResult("Vercel Env: " \o expectedEnvVar, "warn",
                            "Missing from Vercel (will be set on next deploy)")

\* what verifyVercelSetup records when getEnvironmentVariables settles
environmentResults(envs) ==
    IF envs.kind = "rejected"
    THEN <<VerificationResult("Vercel Access", "fail", "Error: " \o envs.error)>>
    ELSE LET actualEnvVars == IF envs.envs = None THEN <<>> ELSE envs.envs.list
         IN [i \in 1..Len(expectedEnvVars) |-> envVarResult(expectedEnvVars[i], actualEnvVars)]

failCount(results) == Cardinality({i \in 1..Len(results) : results[i].status = "fail"})

\* an exit code that is 1 as soon as anything is not a pass
exitCodeOf_warningsFail(results) ==
    IF \E i \in 1..Len(results) : results[i].status # "pass" THEN 1 ELSE 0

\* printResults: process.exit(1) when a result failed; the process ends with 0
\* otherwise
exitCodeOf(results) == IF failCount(results) > 0 THEN 1 ELSE 0

verifierEnvVars == <<"VERCEL_TOKEN", "VERCEL_PROJECT_ID", "VERCEL_TEAM_ID">>

\* the verifier before its constructor
NewVerifier ==
    [pc |-> "start", cloudFormation |-> "idle", vercelSetup |-> "idle", results |-> <<>>,
     printed |-> None, exitCode |-> -1, thrown |-> "none"]

(***************************************************************************)
(* Inputs the programs are run with.                                       *)
(***************************************************************************)
\* an optional value: <<>> when absent, <<v>> when present
Opt(S) == {<<>>} \cup {<<v>> : v \in S}

EnvVar(name, opt) == IF opt = <<>> THEN EmptyEnv ELSE (name :> opt[1])

StageInputs == {s_empty, s_dev, s_prod, s_production, Stage.Production, s_PROD, s_alpha,
                Stage.Alpha, s_beta, s_gamma, s_pipeline, Stage.Root, s_staging,
                s_constructor, s_toString}

AppEnvs == {EnvVar("STAGE", st) @@ EnvVar("CDK_DEFAULT_ACCOUNT", a) @@ EnvVar("CDK_DEFAULT_REGION", r)
              @@ EnvVar("VERCEL_TEAM_SLUG", ts) @@ EnvVar("VERCEL_PROJECT_NAME", pn) :
            st \in Opt(StageInputs), a \in Opt({s_account}), r \in Opt({s_euWest1}),
            ts \in Opt({s_acme}), pn \in Opt({s_widget})}

IssuerModes == {"undefined", "team", "global"}

VercelStackProps == [teamSlug : {s_acme, s_defaultTeamSlug}, projectName : {s_widget},
                     stage : {JSString(v) : v \in StageValues}, issuerMode : IssuerModes]

SeqsUpTo(S, n) == UNION {[1..k -> S] : k \in 0..n}

MultiStageNames == {s_alpha, Stage.Alpha, s_beta, s_prod}

MultiStageProps == [teamSlug : {s_acme}, projectName : {s_widget},
                    stages : {None} \cup {[list |-> l] : l \in SeqsUpTo(MultiStageNames, MaxStages)},
                    issuerMode : {"undefined", "global"}]

RepositoryConfigs == [owner : {s_octo}, repo : {s_infra, s_widget}, filter : {None, JSString(s_main), JSString(s_empty)}]

GitHubStackProps == [repositoryConfig : SeqsUpTo(RepositoryConfigs, MaxRepos), roleName : {None, JSString(s_UserRole)}]

RoleNameArgs == [stage : StageValues, type : {"vercel", "github", "user"}]

DeriveArgs == [seed : {s_seedShort, s_seedAlphaFallback}, stage : {Stage.Alpha, Stage.Production, s_empty},
               clock : {0, 1}]

\* the seed and the two stage labels of two derivations from one seed
DerivePairArgs == [seed : {s_seedShort, s_seedAlphaFallback},
                   stage1 : {Stage.Alpha, Stage.Production, s_alpha, s_empty},
                   stage2 : {Stage.Alpha, Stage.Production, s_alpha, s_empty}]

DynamoDBProps == [version : DynamoDBVersions, stage : StageValues]

\* lib/app.ts as the staged deployment finds it; None when it is not there
AppFiles == {None} \cup {JSString(f) : f \in {s_appTs, s_appTsWithoutCall, s_appTsCallWithComma,
                                               s_appTsTwoCallsWithCommas}}

DeployInputs == [appFile : AppFiles]

\* structures.ts has no developer, config.ts names one
DeveloperEmailLists == {<<>>, <<s_coltenEmail>>, <<s_coltenEmail, s_otherEmail>>}

IamHelperCalls == [helper : {"createGroup", "createSecureRole", "createSecureUser"}, withOption : BOOLEAN]

Programs == {"app", "VercelOpenIDConnectStack", "VercelOpenIDConnectStack(stages)",
             "GitHubOpenIDConnectStack", "generateRoleName", "deriveNextAuthSecret",
             "deriveNextAuthSecret(two stages)", "DynamoDBConstruct", "deploy-staged",
             "UsersStack", "iam helper"}

InputsOf(prog) ==
    CASE prog = "app" -> AppEnvs
      [] prog = "VercelOpenIDConnectStack" -> VercelStackProps
      [] prog = "VercelOpenIDConnectStack(stages)" -> MultiStageProps
      [] prog = "GitHubOpenIDConnectStack" -> GitHubStackProps
      [] prog = "generateRoleName" -> RoleNameArgs
      [] prog = "deriveNextAuthSecret" -> DeriveArgs
      [] prog = "deriveNextAuthSecret(two stages)" -> DerivePairArgs
      [] prog = "DynamoDBConstruct" -> DynamoDBProps
      [] prog = "deploy-staged" -> DeployInputs
      [] prog = "UsersStack" -> [developerEmails : DeveloperEmailLists]
      [] prog = "iam helper" -> IamHelperCalls

(***************************************************************************)
(* The state machine: a one-shot process per program.                      *)
(***************************************************************************)
Init ==
    /\ program \in Programs
    /\ input \in InputsOf(program)
    /\ pc = "start"
    /\ config = None
    /\ stack = None
    /\ result = None
    /\ thrown = "none"
    /\ sync = None
    /\ twin = None
    /\ vercel = <<>>
    /\ deploy = IF program = "deploy-staged" THEN NewDeployment(input.appFile) ELSE None
    /\ verifier = None

\* lib/app.ts: const config = getConfig()
AppGetConfig ==
    /\ program = "app" /\ pc = "start"
    /\ LET cfg == getConfig(input)
       IN IF cfg.threw
          THEN /\ thrown' = cfg.error
               /\ pc' = "failed"
               /\ config' = config
          ELSE /\ config' = cfg
               /\ pc' = "configured"
               /\ thrown' = thrown
    /\ UNCHANGED <<program, input, stack, result, sync, twin, vercel, deploy, verifier>>

\* lib/app.ts: new VercelOpenIDConnectStack(app, 'UmbroVercelOIDC', {...})
AppNewVercelOidcStack ==
    /\ program = "app" /\ pc = "configured"
    /\ LET st == VercelOpenIDConnectStack(appVercelProps(config, input))
       IN /\ stack' = st
          /\ thrown' = st.thrown
          /\ pc' = IF st.thrown = "none" THEN "done" ELSE "failed"
    /\ UNCHANGED <<program, input, config, result, sync, twin, vercel, deploy, verifier>>

\* the single-stage stack constructed with props of the caller's choice
NewVercelOpenIDConnectStack ==
    /\ program = "VercelOpenIDConnectStack" /\ pc = "start"
    /\ LET st == VercelOpenIDConnectStack(input)
       IN /\ stack' = st
          /\ thrown' = st.thrown
          /\ pc' = IF st.thrown = "none" THEN "done" ELSE "failed"
    /\ UNCHANGED <<program, input, config, result, sync, twin, vercel, deploy, verifier>>

NewMultiStageVercelStack ==
    /\ program = "VercelOpenIDConnectStack(stages)" /\ pc = "start"
    /\ LET st == MultiStageVercelStack(input)
       IN /\ stack' = st
          /\ thrown' = st.thrown
          /\ pc' = IF st.thrown = "none" THEN "done" ELSE "failed"
    /\ UNCHANGED <<program, input, config, result, sync, twin, vercel, deploy, verifier>>

NewGitHubOpenIDConnectStack ==
    /\ program = "GitHubOpenIDConnectStack" /\ pc = "start"
    /\ LET st == GitHubOpenIDConnectStack(input)
       IN /\ stack' = st
          /\ thrown' = st.thrown
          /\ pc' = IF st.thrown = "none" THEN "done" ELSE "failed"
    /\ UNCHANGED <<program, input, config, result, sync, twin, vercel, deploy, verifier>>

CallGenerateRoleName ==
    /\ program = "generateRoleName" /\ pc = "start"
    /\ LET r == generateRoleName(input.stage, input.type)
       IN /\ result' = IF r.threw THEN None ELSE JSString(r.value)
          /\ thrown' = IF r.threw THEN "Unknown role type" ELSE thrown
          /\ pc' = IF r.threw THEN "failed" ELSE "done"
    /\ UNCHANGED <<program, input, config, stack, sync, twin, vercel, deploy, verifier>>

CallDeriveNextAuthSecret ==
    /\ program = "deriveNextAuthSecret" /\ pc = "start"
    /\ result' = JSString(deriveNextAuthSecret(input.seed, input.stage))
    /\ pc' = "done"
    /\ UNCHANGED <<program, input, config, stack, thrown, sync, twin, vercel, deploy, verifier>>

\* deriveNextAuthSecret called for two stage labels with one seed
CallDeriveForTwoStages ==
    /\ program = "deriveNextAuthSecret(two stages)" /\ pc = "start"
    /\ result' = [t |-> "pair",
                  first |-> deriveNextAuthSecret(input.seed, input.stage1),
                  second |-> deriveNextAuthSecret(input.seed, input.stage2)]
    /\ pc' = "done"
    /\ UNCHANGED <<program, input, config, stack, thrown, sync, twin, vercel, deploy, verifier>>

NewDynamoDBConstruct ==
    /\ program = "DynamoDBConstruct" /\ pc = "start"
    /\ result' = DynamoDBConstruct(input.version, input.stage)
    /\ pc' = "done"
    /\ UNCHANGED <<program, input, config, stack, thrown, sync, twin, vercel, deploy, verifier>>

\* scripts/deploy-staged.ts main: step 1 up to the first execSync
DeployStart ==
    /\ program = "deploy-staged" /\ deploy.pc = "start"
    /\ LET disabled == updateAppFile(deploy, FALSE)
       IN deploy' = IF disabled.pc = "exited" THEN disabled ELSE [disabled EXCEPT !.pc = "step1"]
    /\ UNCHANGED <<program, pc, input, config, stack, result, thrown, sync, twin, vercel, verifier>>

\* the deployment of UmbroVercelOIDC ends; on success step 2 starts
DeployUmbroVercelOIDC ==
    /\ program = "deploy-staged" /\ deploy.pc = "step1"
    /\ \E ok \in BOOLEAN :
           deploy' = exitUnlessOk(runCommand(deploy, "deploy UmbroVercelOIDC", ok), ok, "step2")
    /\ UNCHANGED <<program, pc, input, config, stack, result, thrown, sync, twin, vercel, verifier>>

\* a step 2 that enables the grant again before it exits on a failure
DeployUmbro_restoresOnFailure ==
    /\ program = "deploy-staged" /\ deploy.pc = "step2"
    /\ \E ok \in BOOLEAN :
           deploy' = updateAppFile(exitUnlessOk(runCommand(deploy, "deploy Umbro", ok), ok, "step3"), TRUE)
    /\ UNCHANGED <<program, pc, input, config, stack, result, thrown, sync, twin, vercel, verifier>>

\* the deployment of Umbro ends; on success the grant is enabled again and
\* step 3 starts
DeployUmbro ==
    /\ program = "deploy-staged" /\ deploy.pc = "step2"
    /\ \E ok \in BOOLEAN :
           LET ran == exitUnlessOk(runCommand(deploy, "deploy Umbro", ok), ok, "step3")
           IN deploy' = IF ok THEN updateAppFile(ran, TRUE) ELSE ran
    /\ UNCHANGED <<program, pc, input, config, stack, result, thrown, sync, twin, vercel, verifier>>

\* the deployment of all stacks ends; the script ends with it
DeployAll ==
    /\ program = "deploy-staged" /\ deploy.pc = "step3"
    /\ \E ok \in BOOLEAN :
           LET ran == exitUnlessOk(runCommand(deploy, "deploy --all", ok), ok, "exited")
           IN deploy' = IF ok THEN [ran EXCEPT !.exitCode = 0] ELSE ran
    /\ UNCHANGED <<program, pc, input, config, stack, result, thrown, sync, twin, vercel, verifier>>

\* one of the IAM helpers called on its own, with or without its optional
\* argument
CallIamHelper ==
    /\ program = "iam helper" /\ pc = "start"
    /\ result' = [t |-> "identities",
                  list |-> << CASE input.helper = "createGroup" ->
                                       createGroup(s_standalone,
                                                   IF input.withOption THEN [list |-> <<s_ReadOnlyAccess>>] ELSE None)
                                [] input.helper = "createSecureRole" ->
                                       createSecureRole(s_standalone,
                                                        IF input.withOption THEN [principal |-> "ServicePrincipal"] ELSE None)
                                [] input.helper = "createSecureUser" ->
                                       createSecureUser(s_standalone, s_otherEmail,
                                                        IF input.withOption
                                                        THEN [list |-> <<createGroup(s_UmbroDevelopers, None)>>]
                                                        ELSE None) >>]
    /\ pc' = "done"
    /\ UNCHANGED <<program, input, config, stack, thrown, sync, twin, vercel, deploy, verifier>>

\* lib/app.ts: new UsersStack(app, 'UmbroUsers', {...})
NewUsersStack ==
    /\ program = "UsersStack" /\ pc = "start"
    /\ result' = [t |-> "identities", list |-> UsersStack(input.developerEmails)]
    /\ pc' = "done"
    /\ UNCHANGED <<program, input, config, stack, thrown, sync, twin, vercel, deploy, verifier>>

Next ==
    \/ AppGetConfig
    \/ AppNewVercelOidcStack
    \/ NewVercelOpenIDConnectStack
    \/ NewMultiStageVercelStack
    \/ NewGitHubOpenIDConnectStack
    \/ CallGenerateRoleName

    \/ CallDeriveNextAuthSecret
    \/ CallDeriveForTwoStages
    \/ NewDynamoDBConstruct
    \/ DeployStart
    \/ DeployUmbroVercelOIDC
    \/ DeployUmbro
    \/ DeployAll
    \/ NewUsersStack
    \/ CallIamHelper


Spec == Init /\ [][Next]_vars

(***************************************************************************)
(* The sync script as a process: its environment, CloudFormation and the   *)
(* Vercel project are the inputs of a run.  `twin` is the same run with    *)
(* other seed values and the same answers of CloudFormation and Vercel, so *)
(* that what the seeds influence can be read off a state.                  *)
(***************************************************************************)
\* most runs of the script in a row
MaxRuns == 2

SyncTargetInputs == {<<"p", "r", "o", "d", "u", "c", "t", "i", "o", "n">>, <<"p", "r", "e", "v", "i", "e", "w", ",", "d", "e", "v", "e", "l", "o", "p", "m", "e", "n", "t">>, <<"p", "r", "e", "v", "i", "e", "w", ",", " ", "p", "r", "o", "d", "u", "c", "t", "i", "o", "n">>,
                     <<"d", "e", "v", "e", "l", "o", "p", "m", "e", "n", "t">>}

\* NEXTAUTH_SEED_ALPHA and NEXTAUTH_SEED_PRODUCTION: unset, set, set and empty
SeedInputs == {[alpha |-> <<>>, production |-> <<>>],
               [alpha |-> <<<<"s", "e", "e", "d", "-", "A", "1">>>>, production |-> <<<<"s", "e", "e", "d", "-", "P", "1">>>>],
               [alpha |-> <<<<>>>>, production |-> <<<<"s", "e", "e", "d", "-", "P", "1">>>>],
               [alpha |-> <<<<"s", "e", "e", "d", "-", "A", "1">>>>, production |-> <<>>]}

\* the seeds of the twin run
TwinSeeds == [alpha |-> <<<<"s", "e", "e", "d", "-", "A", "2">>>>, production |-> <<<<"s", "e", "e", "d", "-", "P", "2">>>>]

Output(key, value) == [OutputKey |-> JSString(key), OutputValue |-> JSString(value)]

\* every output the stacks of this repository export
FullUmbroOutputs ==
    <<Output(<<"A", "c", "c", "o", "u", "n", "t", "I", "d">>, <<"1", "2", "3", "4", "5", "6", "7", "8", "9", "0", "1", "2">>), Output(<<"R", "e", "g", "i", "o", "n">>, <<"u", "s", "-", "e", "a", "s", "t", "-", "1">>),
      Output(<<"U", "s", "e", "r", "s", "T", "a", "b", "l", "e", "N", "a", "m", "e">>, <<"u", "m", "b", "r", "o", "-", "u", "s", "e", "r", "s">>), Output(<<"S", "e", "r", "v", "i", "c", "e", "T", "o", "k", "e", "n", "s", "T", "a", "b", "l", "e", "N", "a", "m", "e">>, <<"u", "m", "b", "r", "o", "-", "s", "e", "r", "v", "i", "c", "e", "-", "t", "o", "k", "e", "n", "s">>),
      Output(<<"R", "a", "t", "e", "L", "i", "m", "i", "t", "T", "a", "b", "l", "e", "N", "a", "m", "e">>, <<"u", "m", "b", "r", "o", "-", "r", "a", "t", "e", "-", "l", "i", "m", "i", "t">>), Output(<<"A", "p", "p", "l", "i", "c", "a", "t", "i", "o", "n", "s", "T", "a", "b", "l", "e", "N", "a", "m", "e">>, <<"u", "m", "b", "r", "o", "-", "a", "p", "p", "l", "i", "c", "a", "t", "i", "o", "n", "s">>),
      Output(<<"E", "n", "v", "i", "r", "o", "n", "m", "e", "n", "t", "s", "T", "a", "b", "l", "e", "N", "a", "m", "e">>, <<"u", "m", "b", "r", "o", "-", "e", "n", "v", "i", "r", "o", "n", "m", "e", "n", "t", "s">>), Output(<<"T", "e", "a", "m", "s", "T", "a", "b", "l", "e", "N", "a", "m", "e">>, <<"u", "m", "b", "r", "o", "-", "t", "e", "a", "m", "s">>),
      Output(<<"T", "e", "a", "m", "M", "e", "m", "b", "e", "r", "s", "h", "i", "p", "s", "T", "a", "b", "l", "e", "N", "a", "m", "e">>, <<"u", "m", "b", "r", "o", "-", "t", "e", "a", "m", "-", "m", "e", "m", "b", "e", "r", "s", "h", "i", "p", "s">>), Output(<<"T", "e", "a", "m", "L", "i", "n", "k", "s", "T", "a", "b", "l", "e", "N", "a", "m", "e">>, <<"u", "m", "b", "r", "o", "-", "t", "e", "a", "m", "-", "l", "i", "n", "k", "s">>),
      Output(<<"R", "e", "q", "u", "e", "s", "t", "s", "T", "a", "b", "l", "e", "N", "a", "m", "e">>, <<"u", "m", "b", "r", "o", "-", "r", "e", "q", "u", "e", "s", "t", "s">>), Output(<<"R", "e", "q", "u", "e", "s", "t", "C", "o", "m", "m", "e", "n", "t", "s", "T", "a", "b", "l", "e", "N", "a", "m", "e">>, <<"u", "m", "b", "r", "o", "-", "r", "e", "q", "u", "e", "s", "t", "-", "c", "o", "m", "m", "e", "n", "t", "s">>),
      Output(<<"A", "c", "c", "e", "s", "s", "G", "r", "a", "n", "t", "s", "T", "a", "b", "l", "e", "N", "a", "m", "e">>, <<"u", "m", "b", "r", "o", "-", "a", "c", "c", "e", "s", "s", "-", "g", "r", "a", "n", "t", "s">>), Output(<<"V", "i", "s", "i", "t", "o", "r", "s", "T", "a", "b", "l", "e", "N", "a", "m", "e">>, <<"u", "m", "b", "r", "o", "-", "v", "i", "s", "i", "t", "o", "r", "s">>),
      Output(<<"U", "s", "e", "r", "P", "e", "r", "m", "i", "s", "s", "i", "o", "n", "s", "T", "a", "b", "l", "e", "N", "a", "m", "e">>, <<"u", "m", "b", "r", "o", "-", "u", "s", "e", "r", "-", "p", "e", "r", "m", "i", "s", "s", "i", "o", "n", "s">>), Output(<<"A", "u", "d", "i", "t", "L", "o", "g", "s", "T", "a", "b", "l", "e", "N", "a", "m", "e">>, <<"u", "m", "b", "r", "o", "-", "a", "u", "d", "i", "t", "-", "l", "o", "g", "s">>),
      Output(<<"P", "l", "a", "n", "s", "T", "a", "b", "l", "e", "N", "a", "m", "e">>, <<"u", "m", "b", "r", "o", "-", "p", "l", "a", "n", "s">>), Output(<<"P", "r", "o", "f", "i", "l", "e", "B", "u", "c", "k", "e", "t", "N", "a", "m", "e">>, <<"u", "m", "b", "r", "o", "-", "p", "r", "o", "f", "i", "l", "e", "-", "a", "l", "p", "h", "a">>),
      Output(<<"A", "s", "s", "e", "t", "s", "B", "u", "c", "k", "e", "t", "N", "a", "m", "e">>, <<"u", "m", "b", "r", "o", "-", "a", "s", "s", "e", "t", "s", "-", "a", "l", "p", "h", "a">>), Output(<<"E", "m", "a", "i", "l", "T", "o", "p", "i", "c", "A", "r", "n">>, <<"a", "r", "n", ":", "a", "w", "s", ":", "s", "n", "s", ":", "t", "o", "p", "i", "c">>),
      Output(<<"E", "m", "a", "i", "l", "L", "o", "g", "G", "r", "o", "u", "p", "N", "a", "m", "e">>, <<"/", "u", "m", "b", "r", "o", "/", "e", "m", "a", "i", "l">>), Output(<<"E", "m", "a", "i", "l", "R", "o", "l", "e", "A", "r", "n">>, <<"a", "r", "n", ":", "a", "w", "s", ":", "i", "a", "m", ":", ":", "r", "o", "l", "e", "/", "e", "m", "a", "i", "l">>)>>

\* the answers of CloudFormation: a rejected call, a stack that is not there,
\* stacks without outputs, some outputs (one with an empty value, one the
\* script does not know, one without a key), every output
CloudFormationAnswers ==
    {[kind |-> "rejected", error |-> "AccessDenied"],
     [kind |-> "ok", umbro |-> [Outputs |-> <<>>], vercel |-> None],
     [kind |-> "ok", umbro |-> [Outputs |-> <<>>], vercel |-> [Outputs |-> <<>>]],
     [kind |-> "ok",
      umbro |-> [Outputs |-> <<Output(<<"A", "c", "c", "o", "u", "n", "t", "I", "d">>, <<"1", "2", "3", "4", "5", "6", "7", "8", "9", "0", "1", "2">>), Output(<<"R", "e", "g", "i", "o", "n">>, <<>>),
                               Output(<<"U", "s", "e", "r", "s", "T", "a", "b", "l", "e", "N", "a", "m", "e">>, <<"u", "m", "b", "r", "o", "-", "u", "s", "e", "r", "s">>),
                               Output(<<"R", "a", "t", "e", "L", "i", "m", "i", "t", "T", "a", "b", "l", "e", "N", "a", "m", "e">>, <<"u", "m", "b", "r", "o", "-", "r", "a", "t", "e", "-", "l", "i", "m", "i", "t">>),
                               Output(<<"U", "n", "k", "n", "o", "w", "n">>, <<"x">>),
                               [OutputKey |-> None, OutputValue |-> JSString(<<"y">>)]>>],
      vercel |-> [Outputs |-> <<Output(<<"A", "c", "c", "o", "u", "n", "t", "I", "d">>, <<"9", "9", "9">>)>>]],
     [kind |-> "ok", umbro |-> [Outputs |-> FullUmbroOutputs],
      vercel |-> [Outputs |-> <<Output(<<"V", "e", "r", "c", "e", "l", "R", "o", "l", "e", "A", "r", "n">>, <<"a", "r", "n", ":", "a", "w", "s", ":", "i", "a", "m", ":", ":", "r", "o", "l", "e", "/", "V", "e", "r", "c", "e", "l", "A", "p", "p", "A", "l", "p", "h", "a">>)>>]]}

\* the Vercel project before the run and the optional e-mail address: a new
\* project, or one that holds an older AWS_REGION for production
SyncWorlds ==
    {[store |-> <<>>, email |-> <<>>],
     [store |-> <<[key |-> <<"A", "W", "S", "_", "R", "E", "G", "I", "O", "N">>, value |-> <<"e", "u", "-", "w", "e", "s", "t", "-", "1">>, target |-> <<<<"p", "r", "o", "d", "u", "c", "t", "i", "o", "n">>>>, type |-> "plain"]>>,
      email |-> <<<<"o", "p", "s", "@", "u", "m", "b", "r", "o", ".", "d", "e", "v">>>>]}

SyncInputs == [version : SyncVersions, targets : Opt(SyncTargetInputs), seeds : SeedInputs,
               cfn : CloudFormationAnswers, world : SyncWorlds]

\* process.env of a run with the given seeds
SyncEnv(in, seeds) ==
    EnvVar(<<"V", "E", "R", "C", "E", "L", "_", "T", "O", "K", "E", "N">>, <<<<"t", "o", "k">>>>) @@ EnvVar(<<"V", "E", "R", "C", "E", "L", "_", "P", "R", "O", "J", "E", "C", "T", "_", "I", "D">>, <<<<"p", "r", "j", "_", "1">>>>)
      @@ EnvVar(<<"V", "E", "R", "C", "E", "L", "_", "T", "E", "A", "M", "_", "I", "D">>, <<<<"t", "e", "a", "m", "_", "1">>>>) @@ EnvVar(<<"T", "A", "R", "G", "E", "T", "S">>, in.targets)
      @@ EnvVar(<<"N", "E", "X", "T", "A", "U", "T", "H", "_", "S", "E", "E", "D", "_", "A", "L", "P", "H", "A">>, seeds.alpha) @@ EnvVar(<<"N", "E", "X", "T", "A", "U", "T", "H", "_", "S", "E", "E", "D", "_", "P", "R", "O", "D", "U", "C", "T", "I", "O", "N">>, seeds.production)
      @@ EnvVar(<<"E", "M", "A", "I", "L", "_", "N", "O", "T", "I", "F", "I", "C", "A", "T", "I", "O", "N", "_", "E", "M", "A", "I", "L">>, in.world.email)

SyncInit ==
    /\ program = "update-vercel-env"
    /\ input \in SyncInputs
    /\ pc = "start"
    /\ config = None
    /\ stack = None
    /\ result = None
    /\ thrown = "none"
    /\ sync = NewRun(1)
    /\ twin = NewRun(1)
    /\ vercel = input.world.store
    /\ deploy = None
    /\ verifier = None

\* node scripts/update-vercel-env.ts: the constructor and run() up to the
\* first await
SyncStart ==
    /\ program = "update-vercel-env" /\ sync.pc = "start"
    /\ sync' = startRun(sync, SyncEnv(input, input.seeds))
    /\ twin' = startRun(twin, SyncEnv(input, TwinSeeds))
    /\ UNCHANGED <<program, pc, input, config, stack, result, thrown, vercel, deploy, verifier>>

\* CloudFormation answers; the script runs on to its first createProjectEnv
\* call, or to its end
SyncCloudFormationResponds ==
    /\ program = "update-vercel-env" /\ sync.pc = "reading"
    /\ sync' = cfnResponds(sync, input.version, SyncEnv(input, input.seeds), input.cfn)
    /\ twin' = cfnResponds(twin, input.version, SyncEnv(input, TwinSeeds), input.cfn)
    /\ UNCHANGED <<program, pc, input, config, stack, result, thrown, vercel, deploy, verifier>>

\* a sync that takes back the variables of the run when a call fails
SyncVercelResponds_rollsBack ==
    /\ program = "update-vercel-env"
    /\ "upserting" \in {sync.pc, twin.pc}
    /\ \E ok \in BOOLEAN :
          /\ sync' = IF sync.pc = "upserting" THEN upsertResponds(sync, ok, "VercelError") ELSE sync
          /\ twin' = IF twin.pc = "upserting" THEN upsertResponds(twin, ok, "VercelError") ELSE twin
          /\ vercel' = IF sync.pc # "upserting" THEN vercel
                       ELSE IF ok THEN createProjectEnv(vercel, requestBody(sync.envVars[sync.next]))
                       ELSE input.world.store
    /\ UNCHANGED <<program, pc, input, config, stack, result, thrown, deploy, verifier>>

\* Vercel answers the pending createProjectEnv call, with success (the
\* variable is then stored) or with an error; the script runs on to its next
\* call, or to its end
SyncVercelResponds ==
    /\ program = "update-vercel-env"
    /\ "upserting" \in {sync.pc, twin.pc}
    /\ \E ok \in BOOLEAN :
          /\ sync' = IF sync.pc = "upserting" THEN upsertResponds(sync, ok, "VercelError") ELSE sync
          /\ twin' = IF twin.pc = "upserting" THEN upsertResponds(twin, ok, "VercelError") ELSE twin
          /\ vercel' = IF ok /\ sync.pc = "upserting"
                       THEN createProjectEnv(vercel, requestBody(sync.envVars[sync.next]))
                       ELSE vercel
    /\ UNCHANGED <<program, pc, input, config, stack, result, thrown, deploy, verifier>>

\* the script is run once more with the same environment, after a run that
\* ended with exit code 0
SyncRunAgain ==
    /\ program = "update-vercel-env"
    /\ sync.pc = "exited" /\ sync.exitCode = 0 /\ twin.pc = "exited"
    /\ sync.runNo < MaxRuns
    /\ sync' = NewRun(sync.runNo + 1)
    /\ twin' = NewRun(twin.runNo + 1)
    /\ UNCHANGED <<program, pc, input, config, stack, result, thrown, vercel, deploy, verifier>>

SyncNext ==
    \/ SyncStart
    \/ SyncCloudFormationResponds
    \/ SyncVercelResponds
    \/ SyncRunAgain

SyncSpec == SyncInit /\ [][SyncNext]_vars

(***************************************************************************)
(* The setup verifier as a state machine.                                  *)
(***************************************************************************)
VerifierEnvs ==
    {EnvVar("VERCEL_TOKEN", t) @@ EnvVar("VERCEL_PROJECT_ID", <<s_widget>>) @@ EnvVar("VERCEL_TEAM_ID", tm) :
       t \in Opt({s_acme}), tm \in {<<s_acme>>, <<s_empty>>}}

StackOutputs(keys) == [Outputs |-> [list |-> keys]]

\* CloudFormation's answers: a rejected call, a stack that is not there,
\* stacks without outputs, the outputs the stacks export now, every output
\* the verifier expects
VerifierCloudFormationAnswers ==
    {[kind |-> "rejected", error |-> "AccessDenied"],
     [kind |-> "ok", umbro |-> None, vercel |-> StackOutputs(<<"VercelRoleArn">>)],
     [kind |-> "ok", umbro |-> [Outputs |-> None], vercel |-> [Outputs |-> None]],
     [kind |-> "ok", umbro |-> StackOutputs(<<"AccountId", "Region", "UsersTableName", "ServiceTokensTableName">>),
      vercel |-> StackOutputs(<<"VercelRoleArn">>)],
     [kind |-> "ok", umbro |-> StackOutputs(expectedOutputs), vercel |-> StackOutputs(<<"VercelRoleArn">>)]}

ProjectAnswers == {[kind |-> "rejected", error |-> "Forbidden"], [kind |-> "ok", name |-> "umbro"]}

EnvironmentAnswers ==
    {[kind |-> "rejected", error |-> "RateLimited"],
     [kind |-> "ok", envs |-> None],
     [kind |-> "ok", envs |-> [list |-> <<"AWS_REGION", "NEXTAUTH_SECRET">>]],
     [kind |-> "ok", envs |-> [list |-> expectedEnvVars]]}

VerifierInputs == [env : VerifierEnvs, cfn : VerifierCloudFormationAnswers,
                   project : ProjectAnswers, envs : EnvironmentAnswers]

VerifyInit ==
    /\ program = "verify-setup"
    /\ input \in VerifierInputs
    /\ pc = "start"
    /\ config = None
    /\ stack = None
    /\ result = None
    /\ thrown = "none"
    /\ sync = None
    /\ twin = None
    /\ vercel = <<>>
    /\ deploy = None
    /\ verifier = NewVerifier

\* new SetupVerifier() and run() up to the await: the constructor throws on a
\* missing variable, which nothing catches; otherwise both checks are started
VerifyStart ==
    /\ program = "verify-setup" /\ verifier.pc = "start"
    /\ verifier' = IF \E i \in 1..Len(verifierEnvVars) : EnvMissing(input.env, verifierEnvVars[i])
                   THEN [verifier EXCEPT !.pc = "exited", !.exitCode = 1,
                                         !.thrown = "Missing required environment variable"]
                   ELSE [verifier EXCEPT !.pc = "running", !.cloudFormation = "describing",
                                         !.vercelSetup = "getting project"]
    /\ UNCHANGED <<program, pc, input, config, stack, result, thrown, sync, twin, vercel, deploy>>

\* the two DescribeStacks calls settle; verifyCloudFormationStacks runs to its end
VerifyCloudFormationResponds ==
    /\ program = "verify-setup" /\ verifier.cloudFormation = "describing"
    /\ verifier' = [addResults(verifier, cloudFormationResults(input.cfn)) EXCEPT !.cloudFormation = "done"]
    /\ UNCHANGED <<program, pc, input, config, stack, result, thrown, sync, twin, vercel, deploy>>

\* projects.get settles; verifyVercelSetup runs to its next await or to its end
VerifyProjectResponds ==
    /\ program = "verify-setup" /\ verifier.vercelSetup = "getting project"
    /\ verifier' = [addResults(verifier, projectResults(input.project)) EXCEPT
                        !.vercelSetup = IF input.project.kind = "rejected" THEN "done" ELSE "getting variables"]
    /\ UNCHANGED <<program, pc, input, config, stack, result, thrown, sync, twin, vercel, deploy>>

\* getEnvironmentVariables settles; verifyVercelSetup runs to its end
VerifyEnvironmentResponds ==
    /\ program = "verify-setup" /\ verifier.vercelSetup = "getting variables"
    /\ verifier' = [addResults(verifier, environmentResults(input.envs)) EXCEPT !.vercelSetup = "done"]
    /\ UNCHANGED <<program, pc, input, config, stack, result, thrown, sync, twin, vercel, deploy>>

\* a run that prints as soon as one of the checks has finished
VerifyPrintResults_afterFirst ==
    /\ program = "verify-setup" /\ verifier.pc = "running"
    /\ "done" \in {verifier.cloudFormation, verifier.vercelSetup}
    /\ verifier' = [verifier EXCEPT !.pc = "exited", !.printed = [list |-> verifier.results],
                                    !.exitCode = exitCodeOf(verifier.results)]
    /\ UNCHANGED <<program, pc, input, config, stack, result, thrown, sync, twin, vercel, deploy>>

\* Promise.all resolved: printResults, and the process ends
VerifyPrintResults ==
    /\ program = "verify-setup" /\ verifier.pc = "running"
    /\ verifier.cloudFormation = "done" /\ verifier.vercelSetup = "done"
    /\ verifier' = [verifier EXCEPT !.pc = "exited", !.printed = [list |-> verifier.results],
                                    !.exitCode = exitCodeOf(verifier.results)]
    /\ UNCHANGED <<program, pc, input, config, stack, result, thrown, sync, twin, vercel, deploy>>

VerifyNext ==
    \/ VerifyStart
    \/ VerifyCloudFormationResponds
    \/ VerifyProjectResponds
    \/ VerifyEnvironmentResponds
    \/ VerifyPrintResults

VerifySpec == VerifyInit /\ [][VerifyNext]_vars

(***************************************************************************)
(* Properties.                                                             *)
(***************************************************************************)
\* the roles of the single-stage Vercel stack built in this run
SingleStageRoles ==
    IF stack # None /\ stack.class = "VercelOpenIDConnectStack"
    THEN {stack.roles[i] : i \in 1..Len(stack.roles)} ELSE {}

\* the roles of the multi-stage Vercel stack built in this run
MultiStageRoles ==
    IF stack # None /\ stack.class = "VercelOpenIDConnectStack(stages)"
    THEN {stack.roles[i] : i \in 1..Len(stack.roles)} ELSE {}

\* every role of whichever stack was built
AllRoles == IF stack # None THEN {stack.roles[i] : i \in 1..Len(stack.roles)} ELSE {}

\* the team slug and project name this run hands to the Vercel stack
RunTeamSlug == IF program = "app" THEN EnvOr(input, "VERCEL_TEAM_SLUG", s_defaultTeamSlug) ELSE input.teamSlug
RunProjectName == IF program = "app" THEN EnvOr(input, "VERCEL_PROJECT_NAME", s_defaultProjectName) ELSE input.projectName

\* the stage-to-environment table, written out
ExpectedEnvironments(stage) ==
    CASE stage = Stage.Alpha -> <<s_development, s_preview>>
      [] stage = Stage.Production -> <<s_production>>
      [] stage = Stage.Beta -> <<s_beta>>
      [] stage = Stage.Development -> <<s_development>>
      [] stage = Stage.Gamma -> <<s_gamma>>
      [] stage = Stage.Pipeline -> <<s_pipeline>>
      [] stage = Stage.Root -> <<s_root>>

\* C1: mapStageToVercelEnvironment is the fixed table: Alpha maps to
\* ["development", "preview"] in that order, Production to ["production"], and
\* every other stage to the one-element list of its lowercased name.
C1_MappingIsFixedTable ==
    \A r \in SingleStageRoles : r.vercelEnvironments = ExpectedEnvironments(r.stage)

C1_Witness ==
    \E r \in SingleStageRoles : r.stage = Stage.Alpha /\ r.vercelEnvironments = <<s_development, s_preview>>

\* the subject or audience key of a conditions object, if any
PinsClaim(conditions, suffix) ==
    \E op \in DOMAIN conditions : \E k \in DOMAIN conditions[op] : EndsWith(k, suffix)

\* C2: every trust condition attached to a federated role pins both the
\* audience claim and the subject claim: its condition map has an ':aud' key
\* and a ':sub' key.
C2_EveryConditionPinsAudAndSub ==
    \A r \in AllRoles : PinsClaim(r.conditions, s_aud) /\ PinsClaim(r.conditions, s_sub)

\* the value under the ':sub' key of a StringEquals condition
SubjectValue(conditions) ==
    LET m == conditions.StringEquals
    IN m[CHOOSE k \in DOMAIN m : EndsWith(k, s_sub)]

\* C3: the subject value is a scalar string when the stage maps to exactly one
\* subject claim and a list when it maps to more than one; never a one-element
\* list, never a scalar standing for several claims.
C3_SubjectValueShape ==
    \A r \in SingleStageRoles :
        LET v == SubjectValue(r.conditions)
        IN /\ Len(r.vercelEnvironments) = 1 => v = StringValue(r.subjectClaims[1])
           /\ Len(r.vercelEnvironments) > 1 => v = ArrayValue(r.subjectClaims)
           /\ v.kind = "array" => Len(v.value) > 1
           /\ v.kind = "string" => Len(r.subjectClaims) = 1

C3_Witness ==
    \E r \in SingleStageRoles :
        /\ r.stage = Stage.Production
        /\ SubjectValue(r.conditions).kind = "string"

s_claimDevelopment == <<"o", "w", "n", "e", "r", ":", "a", "c", "m", "e", ":", "p", "r", "o", "j", "e", "c", "t", ":", "w", "i", "d", "g", "e", "t", ":", "e", "n", "v", "i", "r", "o", "n", "m", "e", "n", "t", ":", "d", "e", "v", "e", "l", "o", "p", "m", "e", "n", "t">>
s_claimPreview == <<"o", "w", "n", "e", "r", ":", "a", "c", "m", "e", ":", "p", "r", "o", "j", "e", "c", "t", ":", "w", "i", "d", "g", "e", "t", ":", "e", "n", "v", "i", "r", "o", "n", "m", "e", "n", "t", ":", "p", "r", "e", "v", "i", "e", "w">>

\* C4: subject claims are built one per mapped environment, in the order of
\* the environment list, each 'owner:<teamSlug>:project:<projectName>:environment:<env>';
\* Alpha with org acme and project widget gives exactly the development claim
\* followed by the preview claim.
C4_SubjectClaimsPerEnvironment ==
    \A r \in SingleStageRoles :
        /\ Len(r.subjectClaims) = Len(r.vercelEnvironments)
        /\ \A i \in 1..Len(r.vercelEnvironments) :
              r.subjectClaims[i] = s_owner \o s_colon \o RunTeamSlug \o s_colon \o s_project \o s_colon
                                     \o RunProjectName \o s_colon \o s_environment \o s_colon
                                     \o r.vercelEnvironments[i]
        /\ (r.stage = Stage.Alpha /\ RunTeamSlug = s_acme /\ RunProjectName = s_widget)
              => r.subjectClaims = <<s_claimDevelopment, s_claimPreview>>

C4_Witness ==
    \E r \in SingleStageRoles :
        /\ r.stage = Stage.Alpha /\ RunTeamSlug = s_acme /\ RunProjectName = s_widget
        /\ SubjectValue(r.conditions) = ArrayValue(<<s_claimDevelopment, s_claimPreview>>)

\* C5: the stage-to-environment mapping is total: every stage of the
\* enumeration gets a non-empty list of environment names, and Production gets
\* exactly ["production"].
C5_MappingTotal ==
    \A r \in SingleStageRoles :
        /\ r.stage \in StageValues
        /\ Len(r.vercelEnvironments) >= 1
        /\ \A i \in 1..Len(r.vercelEnvironments) : Len(r.vercelEnvironments[i]) >= 1
        /\ r.stage = Stage.Production => r.vercelEnvironments = <<s_production>>

C5_Witness ==
    \E r \in SingleStageRoles : r.stage = Stage.Pipeline /\ r.vercelEnvironments = <<s_pipeline>>

\* the STAGE the app was started with, after its default
RunStageInput == EnvOr(input, "STAGE", s_dev)

\* C6: the fallback branch of the stage mapping never applies to the
\* production stage: whenever the app is started with STAGE naming production
\* (prod or production in any letter case) and builds the Vercel stack, the
\* environments come from the explicit Production rule and are ["production"].
C6_ProductionNeverFallsBack ==
    /\ (program = "app" /\ toLowerCase(RunStageInput) \in {s_prod, s_production})
          => \A r \in SingleStageRoles :
                r.envRule = "Production" /\ r.vercelEnvironments = <<s_production>>
    /\ \A r \in SingleStageRoles : r.stage = Stage.Production => r.envRule = "Production"

C6_Witness ==
    /\ program = "app" /\ RunStageInput = s_PROD
    /\ \E r \in SingleStageRoles : r.envRule = "Production" /\ r.stage = Stage.Production

\* the inputs getConfig documents: the enumeration's keys and the aliases
RecognizedStageInput(stageInput) ==
    \/ stageInput \in StageValues
    \/ toLowerCase(stageInput) \in {s_dev, s_development, s_alpha, s_beta, s_prod, s_production,
                                    s_gamma, s_pipeline, s_root}

\* C7: an unrecognized STAGE is rejected: when STAGE is neither a key of the
\* Stage enumeration nor an accepted alias, getConfig throws and no stack, and
\* so no role or trust policy, is constructed.
C7_UnrecognizedStageRejected ==
    (/\ program = "app" /\ pc # "start"
     /\ ~EnvMissing(input, "CDK_DEFAULT_ACCOUNT")
     /\ ~RecognizedStageInput(RunStageInput))
       => (thrown = "Invalid STAGE" /\ config = None /\ stack = None)

\* two different entries of the stages list with the same role name
CollidingStages ==
    /\ program = "VercelOpenIDConnectStack(stages)"
    /\ \E i, j \in 1..Len(stagesOf(input)) :
          /\ stagesOf(input)[i] # stagesOf(input)[j]
          /\ multiStageRoleName(stagesOf(input)[i]) = multiStageRoleName(stagesOf(input)[j])

\* C8: two distinct stages that capitalize to the same role label are
\* rejected before any role is created: the multi-stage stack, given such a
\* stages list, fails and creates no role for either entry.
C8_CollisionRejectedBeforeAnyRole ==
    (CollidingStages /\ pc # "start") => (thrown # "none" /\ Len(stack.roles) = 0)

\* a label: the prefix, the first character upper-cased, the rest as it is
ExpectedLabel(prefix, stage) ==
    IF Len(stage) = 0 THEN prefix
    ELSE prefix \o <<upperChar(stage[1])>> \o SubSeq(stage, 2, Len(stage))

\* C9: the role label of a stage is a fixed prefix followed by the stage name
\* with its first character upper-cased and every other character unchanged;
\* it depends on the stage only, not on team slug, project or issuer mode.
C9_RoleLabelIsPrefixAndCapitalizedStage ==
    /\ \A r \in SingleStageRoles : r.roleName = ExpectedLabel(s_VercelApp, r.stage)
    /\ \A r \in MultiStageRoles : r.roleName = ExpectedLabel(s_VercelDeploy, r.stage)
    /\ (program = "generateRoleName" /\ pc = "done" /\ input.type = "vercel")
          => result = JSString(ExpectedLabel(s_VercelDeploy, input.stage))
    /\ (program = "generateRoleName" /\ pc = "done" /\ input.type = "user")
          => result = JSString(ExpectedLabel(s_UserRole, input.stage))

C9_Witness ==
    \E r \in SingleStageRoles :
        /\ r.stage = Stage.Gamma
        /\ program = "VercelOpenIDConnectStack"
        /\ r.roleName = <<"V", "e", "r", "c", "e", "l", "A", "p", "p", "G", "a", "m", "m", "a">>
        /\ input.issuerMode = "global"

s_secretAlphaFallback == <<"5", "6", "b", "2", "9", "2", "9", "8", "0", "1", "2", "f", "4", "3", "6", "b", "2", "f", "9", "6", "3", "0", "3", "6", "2", "9", "0", "0", "7", "9", "e", "7", "b", "7", "2", "0", "1", "b", "1", "0", "6", "7", "c", "e", "1", "6", "b", "b", "3", "0", "b", "0", "a", "a", "a", "5", "6", "0", "d", "5", "f", "d", "4", "d">>

\* C10: deriveNextAuthSecret(seed, stage) is the lowercase hexadecimal
\* encoding, 64 characters long, of HMAC-SHA256 with key seed and message
\* 'umbro|nextauth|' followed by the stage label, and is determined by seed
\* and stage alone; seed 'umbro-alpha-seed-2024-deterministic-fallback' with
\* stage 'Alpha' gives 56b29298...60d5fd4d.
C10_SecretIsHexHmacOfSeedAndStage ==
    (program = "deriveNextAuthSecret" /\ pc = "done") =>
        /\ result.t = "string"
        /\ Len(result.s) = 64
        /\ \A i \in 1..64 : result.s[i] \in {HexDigits[d] : d \in 1..16}
        /\ result.s = HexEncode(HmacSha256(Utf8(input.seed), Utf8(s_nextauthPrefix \o input.stage)))
        /\ (input.seed = s_seedAlphaFallback /\ input.stage = Stage.Alpha)
              => result.s = s_secretAlphaFallback

C10_Witness ==
    /\ program = "deriveNextAuthSecret" /\ pc = "done"
    /\ input.seed = s_seedAlphaFallback /\ input.stage = Stage.Alpha /\ input.clock = 1
    /\ result = JSString(s_secretAlphaFallback)

s_secretProductionFromAlphaSeed == <<"a", "7", "9", "1", "4", "7", "d", "5", "3", "7", "4", "f", "9", "a", "2", "9", "0", "b", "d", "e", "a", "e", "0", "a", "8", "3", "9", "a", "6", "1", "3", "c", "9", "5", "f", "a", "4", "f", "3", "a", "c", "8", "8", "c", "b", "c", "1", "7", "7", "7", "9", "a", "0", "9", "0", "3", "6", "9", "d", "b", "4", "a", "c", "5">>

\* C11: two different stage labels fed the same seed give different derived
\* secrets: whenever deriveNextAuthSecret is called with one seed for two
\* distinct labels, the two results differ.
C11_DistinctStagesDistinctSecrets ==
    (program = "deriveNextAuthSecret(two stages)" /\ pc = "done" /\ input.stage1 # input.stage2)
        => result.first # result.second

C11_Witness ==
    /\ program = "deriveNextAuthSecret(two stages)" /\ pc = "done"
    /\ input.seed = s_seedAlphaFallback
    /\ input.stage1 = Stage.Alpha /\ input.stage2 = Stage.Production
    /\ result.first = s_secretAlphaFallback
    /\ result.second = s_secretProductionFromAlphaSeed

\* createEnvironmentVariables has run in this run of the sync script
VariablesCreated == program = "update-vercel-env" /\ sync.seedEnvVarName # <<>>

\* the positions of the list of variables that carry the derived secret
SecretPositions(run) ==
    {i \in 1..Len(run.envVars) : run.envVars[i].key \in {<<"N", "E", "X", "T", "A", "U", "T", "H", "_", "S", "E", "C", "R", "E", "T">>, <<"A", "U", "T", "H", "_", "S", "E", "C", "R", "E", "T">>}}

\* what the environment holds under the seed variable of the run's stage
SuppliedSeed == envValue(SyncEnv(input, input.seeds), sync.seedEnvVarName)

\* C12: when the seed of the stage is absent or empty, no NEXTAUTH_SECRET and
\* no AUTH_SECRET is emitted, and a secret that is emitted is derived from the
\* seed the environment supplies and from nothing else.
C12_NoSecretWithoutSeed ==
    VariablesCreated =>
        /\ ~Truthy(SuppliedSeed) => SecretPositions(sync) = {}
        /\ SecretPositions(sync) # {} => sync.seed = SuppliedSeed

\* the variables the Vercel project holds under a key for the targets of the run
StoredUnder(key) ==
    {vercel[i] : i \in {j \in 1..Len(vercel) : vercel[j].key = key /\ vercel[j].target = sync.targets}}

\* C13: whenever the derived secret is published it is published under both
\* names: NEXTAUTH_SECRET is followed by AUTH_SECRET with the same value, the
\* same target list and type 'encrypted', neither name occurs without the
\* other, and after a run that succeeded the project holds the same value
\* under both names.
C13_SecretUnderBothNames ==
    program = "update-vercel-env" =>
        /\ \A i \in 1..Len(sync.envVars) :
              sync.envVars[i].key = <<"N", "E", "X", "T", "A", "U", "T", "H", "_", "S", "E", "C", "R", "E", "T">> =>
                 /\ i < Len(sync.envVars)
                 /\ sync.envVars[i + 1] = [sync.envVars[i] EXCEPT !.key = <<"A", "U", "T", "H", "_", "S", "E", "C", "R", "E", "T">>]
                 /\ sync.envVars[i].type = "encrypted"
                 /\ sync.envVars[i].target = join(sync.targets, <<",">>)
        /\ \A i \in 1..Len(sync.envVars) :
              sync.envVars[i].key = <<"A", "U", "T", "H", "_", "S", "E", "C", "R", "E", "T">> =>
                 i > 1 /\ sync.envVars[i - 1].key = <<"N", "E", "X", "T", "A", "U", "T", "H", "_", "S", "E", "C", "R", "E", "T">>
        /\ (sync.pc = "exited" /\ sync.exitCode = 0 /\ SecretPositions(sync) # {}) =>
              /\ Cardinality(StoredUnder(<<"N", "E", "X", "T", "A", "U", "T", "H", "_", "S", "E", "C", "R", "E", "T">>)) = 1
              /\ {[v EXCEPT !.key = <<"A", "U", "T", "H", "_", "S", "E", "C", "R", "E", "T">>] : v \in StoredUnder(<<"N", "E", "X", "T", "A", "U", "T", "H", "_", "S", "E", "C", "R", "E", "T">>)}
                    = StoredUnder(<<"A", "U", "T", "H", "_", "S", "E", "C", "R", "E", "T">>)

C13_Witness ==
    /\ program = "update-vercel-env" /\ sync.pc = "exited" /\ sync.exitCode = 0
    /\ input.targets = <<<<"p", "r", "e", "v", "i", "e", "w", ",", "d", "e", "v", "e", "l", "o", "p", "m", "e", "n", "t">>>>
    /\ \E v \in StoredUnder(<<"A", "U", "T", "H", "_", "S", "E", "C", "R", "E", "T">>) :
          /\ v.value = <<"4", "d", "6", "d", "1", "5", "1", "9", "d", "f", "0", "5", "6", "9", "0", "a", "4", "5", "f", "5", "6", "a", "9", "b", "8", "8", "e", "b", "2", "4", "5", "3", "f", "f", "b", "e", "5", "5", "6", "b", "c", "4", "3", "8", "7", "5", "e", "0", "5", "1", "2", "f", "5", "e", "c", "4", "e", "3", "c", "e", "3", "c", "f", "9">>
          /\ v.type = "encrypted"
          /\ v.target = <<<<"p", "r", "e", "v", "i", "e", "w">>, <<"d", "e", "v", "e", "l", "o", "p", "m", "e", "n", "t">>>>

\* both runs, the one with the seeds of the input and its twin, have ended
BothExited == program = "update-vercel-env" /\ sync.pc = "exited" /\ twin.pc = "exited"

\* String.prototype.includes on strings
Contains(text, needle) ==
    \E i \in 1..(Len(text) - Len(needle) + 1) : SubSeq(text, i, i + Len(needle) - 1) = needle

\* the values that must not be logged: the seeds of the environment, the seed
\* derived from, and the derived secret
Confidential(run, seeds) ==
    ({seeds.alpha[i] : i \in 1..Len(seeds.alpha)} \cup {seeds.production[i] : i \in 1..Len(seeds.production)}
       \cup (IF run.seed = None THEN {} ELSE {run.seed.s})
       \cup {run.envVars[i].value : i \in SecretPositions(run)}) \ {<<>>}

\* no line of the run's log holds a confidential value
NothingConfidentialLogged(run, seeds) ==
    \A i \in 1..Len(run.log) : \A c \in Confidential(run, seeds) : ~Contains(run.log[i].text, c)

\* C14, as stated: two runs that differ only in the seed values log the same
\* output.
C14_LogIndependentOfSeed == BothExited => sync.log = twin.log

\* C14, amended: no log line holds a seed or the derived secret, and two runs
\* that differ only in the value of a seed that is set log the same output
\* (whether the seed is set at all may show in the log).
C14_SeedAndSecretNeverLogged ==
    /\ (program = "update-vercel-env" /\ sync.pc = "exited") =>
          /\ NothingConfidentialLogged(sync, input.seeds)
          /\ NothingConfidentialLogged(twin, TwinSeeds)
    /\ (BothExited /\ (sync.seedEnvVarName # <<>> => Truthy(SuppliedSeed))) => sync.log = twin.log

C14_Witness ==
    /\ BothExited /\ sync.exitCode = 1 /\ Len(sync.calls) = Len(sync.envVars)
    /\ sync.seed = JSString(<<"s", "e", "e", "d", "-", "P", "1">>) /\ twin.seed = JSString(<<"s", "e", "e", "d", "-", "P", "2">>)
    /\ sync.envVars[Len(sync.envVars)].value # twin.envVars[Len(twin.envVars)].value
    /\ sync.log = twin.log

\* CloudFormation did not deliver the outputs of both stacks
CloudFormationFailed == input.cfn.kind = "rejected" \/ input.cfn.umbro = None \/ input.cfn.vercel = None

\* C15: the sync is fail-fast: a failed upsert is the last call of the run and
\* ends it with exit code 1, every variable is attempted at most once and in
\* order, and a failed read of the CloudFormation outputs ends the run with
\* exit code 1 before any upsert.
C15_FailFast ==
    program = "update-vercel-env" =>
        /\ Len(sync.calls) <= Len(sync.envVars)
        /\ \A i \in 1..Len(sync.calls) :
              /\ sync.calls[i].key = sync.envVars[i].key
              /\ ~sync.calls[i].ok => (i = Len(sync.calls) /\ sync.pc = "exited" /\ sync.exitCode = 1)
        /\ (CloudFormationFailed /\ sync.pc \notin {"start", "reading"}) =>
              (sync.calls = <<>> /\ sync.pc = "exited" /\ sync.exitCode = 1 /\ vercel = input.world.store)

C15_Witness ==
    /\ program = "update-vercel-env" /\ sync.pc = "exited" /\ sync.exitCode = 1
    /\ Len(sync.calls) = 3 /\ Len(sync.envVars) > 3
    /\ sync.calls[2].ok /\ ~sync.calls[3].ok
    /\ Len(vercel) = Len(input.world.store) + 2

DocumentedOutputs ==
    {[stack |-> "umbro", output |-> <<"A", "c", "c", "o", "u", "n", "t", "I", "d">>, key |-> <<"A", "W", "S", "_", "A", "C", "C", "O", "U", "N", "T", "_", "I", "D">>],
     [stack |-> "umbro", output |-> <<"R", "e", "g", "i", "o", "n">>, key |-> <<"A", "W", "S", "_", "R", "E", "G", "I", "O", "N">>],
     [stack |-> "umbro", output |-> <<"U", "s", "e", "r", "s", "T", "a", "b", "l", "e", "N", "a", "m", "e">>, key |-> <<"T", "A", "B", "L", "E", "_", "N", "A", "M", "E", "_", "U", "S", "E", "R", "S">>],
     [stack |-> "umbro", output |-> <<"S", "e", "r", "v", "i", "c", "e", "T", "o", "k", "e", "n", "s", "T", "a", "b", "l", "e", "N", "a", "m", "e">>, key |-> <<"T", "A", "B", "L", "E", "_", "N", "A", "M", "E", "_", "S", "E", "R", "V", "I", "C", "E", "_", "T", "O", "K", "E", "N", "S">>],
     [stack |-> "umbro", output |-> <<"R", "a", "t", "e", "L", "i", "m", "i", "t", "T", "a", "b", "l", "e", "N", "a", "m", "e">>, key |-> <<"T", "A", "B", "L", "E", "_", "N", "A", "M", "E", "_", "R", "A", "T", "E", "_", "L", "I", "M", "I", "T">>],
     [stack |-> "umbro", output |-> <<"A", "p", "p", "l", "i", "c", "a", "t", "i", "o", "n", "s", "T", "a", "b", "l", "e", "N", "a", "m", "e">>, key |-> <<"T", "A", "B", "L", "E", "_", "N", "A", "M", "E", "_", "A", "P", "P", "L", "I", "C", "A", "T", "I", "O", "N", "S">>],
     [stack |-> "umbro", output |-> <<"E", "n", "v", "i", "r", "o", "n", "m", "e", "n", "t", "s", "T", "a", "b", "l", "e", "N", "a", "m", "e">>, key |-> <<"T", "A", "B", "L", "E", "_", "N", "A", "M", "E", "_", "E", "N", "V", "I", "R", "O", "N", "M", "E", "N", "T", "S">>],
     [stack |-> "umbro", output |-> <<"T", "e", "a", "m", "s", "T", "a", "b", "l", "e", "N", "a", "m", "e">>, key |-> <<"T", "A", "B", "L", "E", "_", "N", "A", "M", "E", "_", "T", "E", "A", "M", "S">>],
     [stack |-> "umbro", output |-> <<"T", "e", "a", "m", "M", "e", "m", "b", "e", "r", "s", "h", "i", "p", "s", "T", "a", "b", "l", "e", "N", "a", "m", "e">>, key |-> <<"T", "A", "B", "L", "E", "_", "N", "A", "M", "E", "_", "T", "E", "A", "M", "_", "M", "E", "M", "B", "E", "R", "S", "H", "I", "P", "S">>],
     [stack |-> "umbro", output |-> <<"R", "e", "q", "u", "e", "s", "t", "s", "T", "a", "b", "l", "e", "N", "a", "m", "e">>, key |-> <<"T", "A", "B", "L", "E", "_", "N", "A", "M", "E", "_", "R", "E", "Q", "U", "E", "S", "T", "S">>],
     [stack |-> "umbro", output |-> <<"R", "e", "q", "u", "e", "s", "t", "C", "o", "m", "m", "e", "n", "t", "s", "T", "a", "b", "l", "e", "N", "a", "m", "e">>, key |-> <<"T", "A", "B", "L", "E", "_", "N", "A", "M", "E", "_", "R", "E", "Q", "U", "E", "S", "T", "_", "C", "O", "M", "M", "E", "N", "T", "S">>],
     [stack |-> "umbro", output |-> <<"A", "c", "c", "e", "s", "s", "G", "r", "a", "n", "t", "s", "T", "a", "b", "l", "e", "N", "a", "m", "e">>, key |-> <<"T", "A", "B", "L", "E", "_", "N", "A", "M", "E", "_", "A", "C", "C", "E", "S", "S", "_", "G", "R", "A", "N", "T", "S">>],
     [stack |-> "umbro", output |-> <<"V", "i", "s", "i", "t", "o", "r", "s", "T", "a", "b", "l", "e", "N", "a", "m", "e">>, key |-> <<"T", "A", "B", "L", "E", "_", "N", "A", "M", "E", "_", "V", "I", "S", "I", "T", "O", "R", "S">>],
     [stack |-> "vercel", output |-> <<"V", "e", "r", "c", "e", "l", "R", "o", "l", "e", "A", "r", "n">>, key |-> <<"A", "W", "S", "_", "R", "O", "L", "E", "_", "A", "R", "N">>]}

\* the non-empty values CloudFormation reports for an output of a stack
ReportedValues(row) ==
    {o.OutputValue.s : o \in {input.cfn[row.stack].Outputs[i] : i \in 1..Len(input.cfn[row.stack].Outputs)}
                              \cap {o \in {input.cfn[row.stack].Outputs[i] : i \in 1..Len(input.cfn[row.stack].Outputs)} :
                                      o.OutputKey = JSString(row.output) /\ Truthy(o.OutputValue)}}

\* C17: every output the sync documentation lists, when CloudFormation
\* reports it with a non-empty value, is stored by a successful sync under
\* its documented Vercel key with exactly that value.
C17_DocumentedOutputsSynced ==
    (program = "update-vercel-env" /\ sync.pc = "exited" /\ sync.exitCode = 0) =>
        \A row \in DocumentedOutputs : \A value \in ReportedValues(row) :
            \E v \in StoredUnder(row.key) : v.value = value

\* C18: the derived secret is made from NEXTAUTH_SEED_PRODUCTION exactly when
\* the targets are the production target and from NEXTAUTH_SEED_ALPHA when
\* they are preview and development: the production seed never serves a
\* secret published to preview or development, nor the alpha seed one
\* published to production.
C18_SeedMatchesTargets ==
    (VariablesCreated /\ SecretPositions(sync) # {}) =>
        /\ sync.seedEnvVarName = <<"N", "E", "X", "T", "A", "U", "T", "H", "_", "S", "E", "E", "D", "_", "P", "R", "O", "D", "U", "C", "T", "I", "O", "N">> =>
              \A i \in 1..Len(sync.targets) : sync.targets[i] \notin {<<"p", "r", "e", "v", "i", "e", "w">>, <<"d", "e", "v", "e", "l", "o", "p", "m", "e", "n", "t">>}
        /\ sync.seedEnvVarName = <<"N", "E", "X", "T", "A", "U", "T", "H", "_", "S", "E", "E", "D", "_", "A", "L", "P", "H", "A">> => ~includes(sync.targets, <<"p", "r", "o", "d", "u", "c", "t", "i", "o", "n">>)
        /\ sync.targets = <<<<"p", "r", "o", "d", "u", "c", "t", "i", "o", "n">>>> => sync.seedEnvVarName = <<"N", "E", "X", "T", "A", "U", "T", "H", "_", "S", "E", "E", "D", "_", "P", "R", "O", "D", "U", "C", "T", "I", "O", "N">>
        /\ sync.targets = <<<<"p", "r", "e", "v", "i", "e", "w">>, <<"d", "e", "v", "e", "l", "o", "p", "m", "e", "n", "t">>>> => sync.seedEnvVarName = <<"N", "E", "X", "T", "A", "U", "T", "H", "_", "S", "E", "E", "D", "_", "A", "L", "P", "H", "A">>

(***************************************************************************)
(* The defaults of getConfig.                                              *)
(***************************************************************************)
\* the app was started with an account and without STAGE
StageUnset ==
    /\ program = "app"
    /\ ~EnvMissing(input, "CDK_DEFAULT_ACCOUNT")
    /\ "STAGE" \notin DOMAIN input

\* C19: STAGE is optional and defaults to 'dev': when CDK_DEFAULT_ACCOUNT is
\* set and STAGE is unset, getConfig returns a configuration without throwing,
\* its stage is the development stage, its account is the one given, and its
\* region is 'us-east-1' when CDK_DEFAULT_REGION is unset (and the region given
\* otherwise).
C19_StageDefaultsToDev ==
    (StageUnset /\ pc # "start") =>
        /\ config # None
        /\ ~config.threw
        /\ config.stage = JSString(Stage.Development)
        /\ config.env.account = input["CDK_DEFAULT_ACCOUNT"]
        /\ config.env.region = IF EnvMissing(input, "CDK_DEFAULT_REGION")
                               THEN s_usEast1
                               ELSE input["CDK_DEFAULT_REGION"]
        /\ pc = "configured" => thrown = "none"

C19_Witness ==
    /\ StageUnset
    /\ EnvMissing(input, "CDK_DEFAULT_REGION")
    /\ pc = "configured"
    /\ config.stage = JSString(Stage.Development)
    /\ config.env.region = s_usEast1

(***************************************************************************)
(* The tables of the DynamoDB construct.                                   *)
(***************************************************************************)
\* the tables of the construct built in this run
ConstructTables ==
    IF program = "DynamoDBConstruct" /\ pc = "done"
    THEN {result.tables[i] : i \in 1..Len(result.tables)} ELSE {}

PointInTimeRecovery(table) ==
    /\ "pointInTimeRecoverySpecification" \in DOMAIN table
    /\ table["pointInTimeRecoverySpecification"].pointInTimeRecoveryEnabled

\* C20: for every stage, every DynamoDB table created by the table construct
\* uses pay-per-request billing and has point-in-time recovery enabled.
C20_TablesOnDemandWithRecovery ==
    \A table \in ConstructTables :
        table["billingMode"] = "PAY_PER_REQUEST" /\ PointInTimeRecovery(table)

(***************************************************************************)
(* The staged deployment.                                                  *)
(***************************************************************************)
StagedCommands == <<"deploy UmbroVercelOIDC", "deploy Umbro", "deploy --all">>

\* the commands run so far are the first steps, in order, and every command
\* but the last one succeeded
CommandsInOrder ==
    /\ Len(deploy.commands) <= Len(StagedCommands)
    /\ \A i \in 1..Len(deploy.commands) :
           /\ deploy.commands[i].command = StagedCommands[i]
           /\ i < Len(deploy.commands) => deploy.commands[i].ok

\* the last command run failed
CommandFailed == deploy.commands # <<>> /\ ~deploy.commands[Len(deploy.commands)].ok

\* a call of updateAppFile threw
UpdateThrew == \E i \in 1..Len(deploy.updates) : deploy.updates[i].threw

\* the grant was switched off before step 1 and on again before step 3 only
UpdatesInOrder ==
    /\ deploy.pc \in {"step1", "step2"} => deploy.updates = <<[enable |-> FALSE, threw |-> FALSE]>>
    /\ deploy.pc = "step3" => deploy.updates = <<[enable |-> FALSE, threw |-> FALSE],
                                                 [enable |-> TRUE, threw |-> FALSE]>>
    /\ deploy.pc = "start" => deploy.updates = <<>> /\ deploy.commands = <<>>
    /\ deploy.pc = "step1" => Len(deploy.commands) = 0
    /\ deploy.pc = "step2" => Len(deploy.commands) = 1
    /\ deploy.pc = "step3" => Len(deploy.commands) = 2

\* C21 (as stated): the staged deployment runs its three steps in the fixed
\* order, a step starts only after the previous one succeeded, and a failed
\* step, the rewriting of lib/app.ts that belongs to it included, ends the
\* script with exit code 1 without running a later step.
C21_StepsInOrderFailFast ==
    program = "deploy-staged" =>
        /\ CommandsInOrder
        /\ UpdatesInOrder
        /\ (CommandFailed \/ UpdateThrew) => (deploy.pc = "exited" /\ deploy.exitCode = 1)
        /\ deploy.exitCode = 1 => (CommandFailed \/ UpdateThrew)

\* C21 (amended): the three commands run in the fixed order, each only after
\* the one before succeeded, the grant is switched off before the first and on
\* before the third; a failed command ends the script with exit code 1 and
\* no later step runs; when lib/app.ts cannot be read no command runs and the
\* exit code is 0.
C21_CommandsInOrderFailFast ==
    program = "deploy-staged" =>
        /\ CommandsInOrder
        /\ UpdatesInOrder
        /\ CommandFailed => (deploy.pc = "exited" /\ deploy.exitCode = 1)
        /\ deploy.exitCode = 1 => CommandFailed
        /\ UpdateThrew => (deploy.pc = "exited" /\ deploy.exitCode = 0 /\ deploy.commands = <<>>)
        /\ (deploy.exitCode = 0 /\ ~UpdateThrew) =>
               (Len(deploy.commands) = 3 /\ deploy.commands[3].ok)

C21_Witness ==
    /\ program = "deploy-staged"
    /\ deploy.pc = "exited" /\ deploy.exitCode = 1
    /\ Len(deploy.commands) = 2
    /\ deploy.commands[1].ok /\ ~deploy.commands[2].ok

\* an active call of grantS3BucketAccess: one that starts a line
GrantEnabled(content) ==
    \E i \in Occurrences(content, s_grantCallHead, 1) : i = 1 \/ content[i - 1] = "\n"

AllStepsSucceeded ==
    /\ program = "deploy-staged"
    /\ deploy.pc = "exited" /\ deploy.exitCode = 0
    /\ Len(deploy.commands) = 3

\* C22: after a staged deployment in which all three steps succeed, lib/app.ts
\* again holds the active grantS3BucketAccess call, and step 1 was deployed
\* from a file in which the grant was disabled.
C22_GrantRestoredAfterSuccess ==
    AllStepsSucceeded =>
        /\ GrantEnabled(deploy.file.s)
        /\ ~GrantEnabled(deploy.commands[1].appFile.s)

\* step 1 or step 2 failed
EarlyStepFailed ==
    /\ program = "deploy-staged"
    /\ deploy.exitCode = 1
    /\ Len(deploy.commands) <= 2

\* C24: if step 1 or step 2 fails, the script exits without restoring
\* lib/app.ts: the file is the one updateAppFile(false) wrote, and
\* updateAppFile(true) is not called in that run.
C24_NoRestoreAfterEarlyFailure ==
    EarlyStepFailed =>
        /\ deploy.pc = "exited"
        /\ deploy.file = JSString(updateAppFile_content(input.appFile.s, FALSE))
        /\ \A i \in 1..Len(deploy.updates) : ~deploy.updates[i].enable

C24_Witness ==
    /\ EarlyStepFailed
    /\ Len(deploy.commands) = 2
    /\ deploy.file # input.appFile
    /\ ~GrantEnabled(deploy.file.s)

(***************************************************************************)
(* MFA on the identities of the IAM helpers.                               *)
(***************************************************************************)
\* the identities created in this run
Identities ==
    IF program \in {"UsersStack", "iam helper"} /\ pc = "done"
    THEN {result.list[i] : i \in 1..Len(result.list)} ELSE {}

\* the identity carries the statement that denies everything but the MFA
\* self-management actions and sts:AssumeRole when MFA is not present
DeniesWithoutMfa(identity) ==
    \E i \in 1..Len(identity.statements) :
        LET st == identity.statements[i]
        IN /\ st.effect = "Deny"
           /\ st.notActions = mfaActions \o <<"sts:AssumeRole">>
           /\ st.actions = <<>>
           /\ st.resources = <<"*">>
           /\ st.conditions = [Bool |-> [key |-> "aws:MultiFactorAuthPresent", value |-> "false"]]

\* C23: MFA is enforced on every identity created by the IAM helpers: each
\* group from createGroup, each role from createSecureRole and each user from
\* createSecureUser carries the deny-without-MFA statement.
C23_EveryIdentityDeniesWithoutMfa ==
    \A identity \in Identities : DeniesWithoutMfa(identity)

(***************************************************************************)
(* The order of the upserts.                                               *)
(***************************************************************************)
\* the project after the first k variables of the list were upserted into it
RECURSIVE Written(_, _, _)
Written(store, envVars, k) ==
    IF k = 0 THEN store
    ELSE createProjectEnv(Written(store, envVars, k - 1), requestBody(envVars[k]))

\* the project as the run found it: the project of the input, or what the
\* run before, which succeeded with the same list, made of it
StoreBeforeRun ==
    IF sync.runNo = 1 THEN input.world.store
    ELSE Written(input.world.store, sync.envVars, Len(sync.envVars))

\* the calls of the run that succeeded
Succeeded(run) == {i \in 1..Len(run.calls) : run.calls[i].ok}

\* C25: the variables are upserted one at a time in the order of the list and
\* nothing is taken back: when the k-th upsert fails the run ends, the project
\* holds exactly the first k-1 variables of the list on top of what it held
\* before, and the variables from k on, NEXTAUTH_SECRET and AUTH_SECRET at the
\* end of the list included, are not written in that run.
C25_PrefixWrittenNoRollback ==
    (program = "update-vercel-env" /\ sync.pc \in {"upserting", "exited"}) =>
        /\ Len(sync.calls) <= Len(sync.envVars)
        /\ \A i \in 1..Len(sync.calls) : sync.calls[i].key = sync.envVars[i].key
        /\ Succeeded(sync) = 1..Cardinality(Succeeded(sync))
        /\ sync.pc = "upserting" => (sync.next = Len(sync.calls) + 1 /\ Succeeded(sync) = 1..Len(sync.calls))
        /\ vercel = Written(StoreBeforeRun, sync.envVars, Cardinality(Succeeded(sync)))
        /\ SecretPositions(sync) \in {{}, {Len(sync.envVars) - 1, Len(sync.envVars)}}
        /\ (sync.runNo = 1 /\ SecretPositions(sync) # {} /\ Cardinality(Succeeded(sync)) < Len(sync.envVars) - 1) =>
              /\ StoredUnder(<<"N", "E", "X", "T", "A", "U", "T", "H", "_", "S", "E", "C", "R", "E", "T">>) = {}
              /\ StoredUnder(<<"A", "U", "T", "H", "_", "S", "E", "C", "R", "E", "T">>) = {}

C25_Witness ==
    /\ program = "update-vercel-env" /\ sync.runNo = 1
    /\ sync.pc = "exited" /\ sync.exitCode = 1
    /\ Len(sync.calls) = 4 /\ ~sync.calls[4].ok
    /\ SecretPositions(sync) # {}
    /\ vercel = Written(input.world.store, sync.envVars, 3)
    /\ vercel # input.world.store
    /\ StoredUnder(<<"N", "E", "X", "T", "A", "U", "T", "H", "_", "S", "E", "C", "R", "E", "T">>) = {}

(***************************************************************************)
(* The stage label of the derivation.                                      *)
(***************************************************************************)
\* the label TARGETS stands for: Production exactly when the trimmed list
\* names production
LabelOfTargets == IF includes(sync.targets, <<"p", "r", "o", "d", "u", "c", "t", "i", "o", "n">>) THEN <<"P", "r", "o", "d", "u", "c", "t", "i", "o", "n">> ELSE <<"A", "l", "p", "h", "a">>

\* the secrets in the list of a run are the derivation of its seed and the label
SecretsDerivedWith(run, label) ==
    \A i \in SecretPositions(run) : run.envVars[i].value = deriveNextAuthSecret(run.seed.s, label)

\* C26: the stage label fed into the derivation is determined by TARGETS alone
\* and is 'Production' or 'Alpha': 'Production' exactly when the trimmed list
\* contains 'production', other targets beside it or not, and 'Alpha' for
\* every other list, so that non-production deployments with one seed get the
\* same secret, whatever their targets and whatever the other seed is.  The
\* values are compared when the list has just been made; it does not change
\* afterwards.
C26_LabelFromTargetsOnly ==
    VariablesCreated =>
        /\ sync.targets = trimAll(split(input.targets[1], <<",">>))
        /\ sync.seedEnvVarName = <<"N", "E", "X", "T", "A", "U", "T", "H", "_", "S", "E", "E", "D", "_">> \o toUpperCase(LabelOfTargets)
        /\ twin.seedEnvVarName = sync.seedEnvVarName
        /\ sync.calls = <<>> => (SecretsDerivedWith(sync, LabelOfTargets) /\ SecretsDerivedWith(twin, LabelOfTargets))

C26_Witness ==
    /\ VariablesCreated
    /\ input.targets = <<<<"p", "r", "e", "v", "i", "e", "w", ",", " ", "p", "r", "o", "d", "u", "c", "t", "i", "o", "n">>>>
    /\ LabelOfTargets = <<"P", "r", "o", "d", "u", "c", "t", "i", "o", "n">>
    /\ SecretPositions(sync) # {}
    /\ sync.calls = <<>>
    /\ sync.seed = JSString(<<"s", "e", "e", "d", "-", "P", "1">>)
    /\ SecretsDerivedWith(sync, <<"P", "r", "o", "d", "u", "c", "t", "i", "o", "n">>)

(***************************************************************************)
(* The setup verifier.                                                     *)
(***************************************************************************)
VerifierExited == program = "verify-setup" /\ verifier.pc = "exited"

\* the constructor found its three variables
VerifierConstructed ==
    \A i \in 1..Len(verifierEnvVars) : ~EnvMissing(input.env, verifierEnvVars[i])

HasStatus(status) == \E i \in 1..Len(verifier.results) : verifier.results[i].status = status

\* a rejected call of either check is in the list as a failed result, and the
\* results were printed all the same
RejectionsRecorded ==
    /\ input.cfn.kind = "rejected" =>
          includes(verifier.results, VerificationResult("CloudFormation Access", "fail", "Error: AccessDenied"))
    /\ input.project.kind = "rejected" =>
          includes(verifier.results, VerificationResult("Vercel Access", "fail", "Error: Forbidden"))
    /\ (input.project.kind = "ok" /\ input.envs.kind = "rejected") =>
          includes(verifier.results, VerificationResult("Vercel Access", "fail", "Error: RateLimited"))
    /\ verifier.printed # None
    /\ verifier.thrown = "none"

\* C27 (as stated): the verifier exits with code 1 if and only if at least one
\* recorded check has status 'fail'; warnings alone never give a non-zero
\* exit, and an exception inside either check is recorded as a failed result
\* and does not escape.
C27_ExitOneIffCheckFailed ==
    VerifierExited =>
        /\ verifier.exitCode = 1 <=> HasStatus("fail")
        /\ verifier.exitCode \in {0, 1}

\* C27 (amended): once the verifier is constructed it exits with code 1 if and
\* only if a recorded check failed, with code 0 otherwise, warnings or not, and
\* a rejected call of either check is recorded as a failed result and printed;
\* when one of its three variables is missing the constructor throws and the
\* process ends with code 1 with no check recorded.
C27_ExitOneIffCheckFailedOnceConstructed ==
    VerifierExited =>
        /\ VerifierConstructed =>
              /\ verifier.exitCode = 1 <=> HasStatus("fail")
              /\ verifier.exitCode \in {0, 1}
              /\ RejectionsRecorded
        /\ ~VerifierConstructed =>
              (verifier.exitCode = 1 /\ verifier.results = <<>> /\ verifier.printed = None)

C27_Witness ==
    /\ VerifierExited
    /\ VerifierConstructed
    /\ verifier.exitCode = 0
    /\ HasStatus("warn")
    /\ ~HasStatus("fail")

\* what each check records for the answers of this run
CloudFormationRecorded == cloudFormationResults(input.cfn)
VercelRecorded ==
    projectResults(input.project)
        \o IF input.project.kind = "ok" THEN environmentResults(input.envs) ELSE <<>>

\* the results of a check stand in list once each and in the order recorded
RecordedOnceInOrder(list, recorded) ==
    /\ \A k \in 1..Len(recorded) : Cardinality({i \in 1..Len(list) : list[i] = recorded[k]}) = 1
    /\ \A k, l \in 1..Len(recorded) :
          k < l => (CHOOSE i \in 1..Len(list) : list[i] = recorded[k])
                      < (CHOOSE i \in 1..Len(list) : list[i] = recorded[l])

\* C28: the two checks run concurrently and append to one list; whatever the
\* order in which their calls settle, printResults runs only after both have
\* finished, the list printed holds every result of either check exactly once,
\* and a failure of one check does not keep the other from recording.
C28_BothChecksRecordedBeforePrint ==
    (program = "verify-setup" /\ verifier.printed # None) =>
        /\ verifier.cloudFormation = "done" /\ verifier.vercelSetup = "done"
        /\ verifier.printed.list = verifier.results
        /\ Len(verifier.results) = Len(CloudFormationRecorded) + Len(VercelRecorded)
        /\ RecordedOnceInOrder(verifier.results, CloudFormationRecorded)
        /\ RecordedOnceInOrder(verifier.results, VercelRecorded)

\* the project answered first, CloudFormation rejected next, the variables last
C28_Witness ==
    /\ program = "verify-setup" /\ verifier.printed # None
    /\ input.cfn.kind = "rejected" /\ input.project.kind = "ok" /\ input.envs.kind = "ok"
    /\ Len(verifier.results) = 8
    /\ verifier.results[1].check = "Vercel Project Access"
    /\ verifier.results[2].check = "CloudFormation Access"
    /\ verifier.results[8].check = "Vercel Env: SERVICE_TOKENS_TABLE_NAME"

====
